---- MODULE Spec2Model ----
(***************************************************************************)
(* docs/create_presentation.py: a script that builds a nine-slide          *)
(* presentation through the python-pptx drawing API and saves it next to   *)
(* itself.                                                                 *)
(*                                                                         *)
(* How the code is read here.                                              *)
(*  - A helper or a slide builder is the sequence of library calls and     *)
(*    property assignments it performs, in program order ("primitive       *)
(*    calls", records [op |-> ..., ...]).  The operator named after the    *)
(*    Python function computes that sequence from the function's           *)
(*    arguments, following the function's own branches and loops.          *)
(*  - LibCall executes one primitive call on the presentation object; any  *)
(*    primitive call may raise instead (LibFault), and a call the library  *)
(*    rejects (cell index out of range, colour of a fill that is not       *)
(*    solid, an explicit raise) always raises.                             *)
(*  - The `slide` argument of every helper is the slide the running        *)
(*    builder created, i.e. the last slide of the presentation; the local  *)
(*    references p, run / r and cell are the cursor `cur`.                 *)
(*  - Python None, and the empty list, are the empty tuple <<>>: both are  *)
(*    falsy, every RGBColor (a 3-tuple) and non-empty list is truthy.      *)
(*  - Lengths are integer EMU.  Inches(x) is written with x in hundredths  *)
(*    of an inch; int(x * 914400) equals hundredths * 9144 for every       *)
(*    literal of the script.                                               *)
(*  - TLA+ strings are ASCII: a non-ASCII character of a Python literal is *)
(*    written \uXXXX (backslash, u, code point), which keeps distinct      *)
(*    strings distinct.                                                    *)
(***************************************************************************)
EXTENDS Integers, Sequences, FiniteSets, TLC

VARIABLES
    cwd,        \* the process's working directory
    file,       \* __file__: the path the script was started with
    status,     \* "import" | "main" | "builder" | "done" | "fault"
                \* | "helper_call" | "helper" | "helper_done"
    pc,         \* index in `main` of the statement to execute next
    prog,       \* primitive calls of the running builder or helper
    ip,         \* index in prog of the next primitive call
    prs,        \* the Presentation object
    cur,        \* local references into the last shape: cell, p, r
    size_kb,    \* main's local size_kb
    stdout,     \* what print() has written, one string per call
    fs,         \* the file system: path -> file content
    created,    \* created[j]: which build_slide<k> created slide j
    saveCalls,  \* how many times prs.save wrote to the file system (this run)
    faultAt,    \* the statement of main an unhandled exception came from
    runs,       \* how many times the script has been started
    call        \* the helper call under test (helper specification only)

vars == <<cwd, file, status, pc, prog, ip, prs, cur, size_kb, stdout, fs,
          created, saveCalls, faultAt, runs, call>>

-----------------------------------------------------------------------------
(* Python values *)

None == <<>>

Truthy(x) == x # <<>>

\* rec with attribute `name` set to v (an assignment obj.name = v)
Set(rec, name, v) == (name :> v) @@ rec

RECURSIVE Flatten(_)
Flatten(ss) == IF ss = <<>> THEN <<>> ELSE Head(ss) \o Flatten(Tail(ss))

-----------------------------------------------------------------------------
(* Constants, lines 24-42 *)

NAVY    == <<30, 58, 95>>
STEEL   == <<33, 150, 243>>
LBLUE   == <<144, 202, 249>>
WHITE   == <<255, 255, 255>>
LGRAY   == <<240, 244, 248>>
DGRAY   == <<51, 51, 51>>
MONO_BG == <<245, 245, 245>>
RED_LT  == <<255, 235, 238>>
RED_DK  == <<198, 40, 40>>
GRN_LT  == <<232, 245, 233>>
GRN_DK  == <<46, 125, 50>>

\* pptx.util: Inches(x) = int(x * 914400), Pt(x) = int(x * 12700)
EMU_PER_CENTI_INCH == 9144
EMU_PER_PT == 12700

Inches(hundredths) == hundredths * EMU_PER_CENTI_INCH
Pt(points) == points * EMU_PER_PT

SLIDE_W == Inches(1333)
SLIDE_H == Inches(750)

\* pptx.enum.text.PP_ALIGN
PP_ALIGN == [LEFT |-> "LEFT", CENTER |-> "CENTER"]

-----------------------------------------------------------------------------
(* os.path on paths [abs |-> BOOLEAN, parts |-> sequence of names] *)

abspath(p) == IF p.abs THEN p ELSE [abs |-> TRUE, parts |-> cwd.parts \o p.parts]

dirname(p) == [p EXCEPT !.parts = SubSeq(@, 1, Len(@) - 1)]

join(d, name) == [d EXCEPT !.parts = Append(@, name)]

OUTPUT_PATH_in_cwd == join(cwd, "campus-analytics-presentation.pptx")

OUTPUT_PATH == join(dirname(abspath(file)), "campus-analytics-presentation.pptx")

-----------------------------------------------------------------------------
(* Helpers, lines 48-187 *)

set_bg(rgb) ==
    << [op |-> "background.fill.solid"],
       [op |-> "background.fill.fore_color.rgb", v |-> rgb] >>

\* '{:02X}'.format(n)
HexDigit == <<"0", "1", "2", "3", "4", "5", "6", "7",
              "8", "9", "A", "B", "C", "D", "E", "F">>

Hex02(n) == HexDigit[(n \div 16) + 1] \o HexDigit[(n % 16) + 1]

\* the element parse_xml returns at lines 58-61
solidFill(rgb) ==
    [tag |-> "a:solidFill",
     children |-> << [tag |-> "a:srgbClr",
                      val |-> Hex02(rgb[1]) \o Hex02(rgb[2]) \o Hex02(rgb[3])] >>]

_cell_bg_without_remove(rgb) ==
    << [op |-> "get_or_add_tcPr"],
       [op |-> "tcPr.insert", at |-> 0, e |-> solidFill(rgb)] >>

_cell_bg(rgb) ==
    << [op |-> "get_or_add_tcPr"],
       [op |-> "tcPr.remove", tag |-> "a:solidFill"],
       [op |-> "tcPr.insert", at |-> 0, e |-> solidFill(rgb)] >>

rect_defaults == [line |-> None]

rect(l, t, w, h, fill, kw) ==
    LET a == kw @@ rect_defaults IN
    << [op |-> "add_shape", type |-> 1, l |-> l, t |-> t, w |-> w, h |-> h],
       [op |-> "fill.solid"],
       [op |-> "fill.fore_color.rgb", v |-> fill] >>
    \o (IF Truthy(a.line)
        THEN << [op |-> "line.color.rgb", v |-> a.line] >>
        ELSE << [op |-> "line.fill.background"] >>)

textbox_defaults ==
    [size |-> 14, bold |-> FALSE, color |-> DGRAY, align |-> PP_ALIGN.LEFT,
     italic |-> FALSE, wrap |-> TRUE, font |-> "Calibri"]

textbox_italic_only_if_set(text, l, t, w, h, kw) ==
    LET a == kw @@ textbox_defaults IN
    << [op |-> "add_textbox", l |-> l, t |-> t, w |-> w, h |-> h],
       [op |-> "word_wrap", v |-> a.wrap],
       [op |-> "paragraphs[0]"],
       [op |-> "alignment", v |-> a.align],
       [op |-> "add_run"],
       [op |-> "text", v |-> text],
       [op |-> "font.size", v |-> Pt(a.size)],
       [op |-> "font.bold", v |-> a.bold] >>
    \o (IF a.italic THEN << [op |-> "font.italic", v |-> TRUE] >> ELSE <<>>)
    \o << [op |-> "font.color.rgb", v |-> a.color],
          [op |-> "font.name", v |-> a.font] >>

textbox(text, l, t, w, h, kw) ==
    LET a == kw @@ textbox_defaults IN
    << [op |-> "add_textbox", l |-> l, t |-> t, w |-> w, h |-> h],
       [op |-> "word_wrap", v |-> a.wrap],
       [op |-> "paragraphs[0]"],
       [op |-> "alignment", v |-> a.align],
       [op |-> "add_run"],
       [op |-> "text", v |-> text],
       [op |-> "font.size", v |-> Pt(a.size)],
       [op |-> "font.bold", v |-> a.bold],
       [op |-> "font.italic", v |-> a.italic],
       [op |-> "font.color.rgb", v |-> a.color],
       [op |-> "font.name", v |-> a.font] >>

multiline_box_defaults == [default_size |-> 13, bg |-> None, mono |-> FALSE]

multiline_box_item_size_off_by_one(i, item, a) ==
    IF Len(item) = 0
    THEN << [op |-> "raise", exc |-> "IndexError"] >>
    ELSE
    LET text  == item[1]
        size  == IF Len(item) > 2 THEN item[2] ELSE a.default_size
        bold  == IF Len(item) > 2 THEN item[3] ELSE FALSE
        color == IF Len(item) > 3 THEN item[4] ELSE DGRAY
        level == IF Len(item) > 4 THEN item[5] ELSE 0
    IN
    << IF i = 0 THEN [op |-> "paragraphs[0]"] ELSE [op |-> "add_paragraph"],
       [op |-> "level", v |-> level],
       [op |-> "add_run"],
       [op |-> "text", v |-> text],
       [op |-> "font.size", v |-> Pt(size)],
       [op |-> "font.bold", v |-> bold],
       [op |-> "font.color.rgb", v |-> color],
       [op |-> "font.name", v |-> IF a.mono THEN "Courier New" ELSE "Calibri"] >>

\* one iteration of the loop at lines 112-126, item the i-th tuple (i from 0)
multiline_box_item(i, item, a) ==
    IF Len(item) = 0
    THEN << [op |-> "raise", exc |-> "IndexError"] >>
    ELSE
    LET text  == item[1]
        size  == IF Len(item) > 1 THEN item[2] ELSE a.default_size
        bold  == IF Len(item) > 2 THEN item[3] ELSE FALSE
        color == IF Len(item) > 3 THEN item[4] ELSE DGRAY
        level == IF Len(item) > 4 THEN item[5] ELSE 0
    IN
    << IF i = 0 THEN [op |-> "paragraphs[0]"] ELSE [op |-> "add_paragraph"],
       [op |-> "level", v |-> level],
       [op |-> "add_run"],
       [op |-> "text", v |-> text],
       [op |-> "font.size", v |-> Pt(size)],
       [op |-> "font.bold", v |-> bold],
       [op |-> "font.color.rgb", v |-> color],
       [op |-> "font.name", v |-> IF a.mono THEN "Courier New" ELSE "Calibri"] >>

multiline_box_one_paragraph(lines_data, l, t, w, h, kw) ==
    LET a == kw @@ multiline_box_defaults IN
    << [op |-> "add_textbox", l |-> l, t |-> t, w |-> w, h |-> h],
       [op |-> "word_wrap", v |-> TRUE] >>
    \o (IF Truthy(a.bg)
        THEN << [op |-> "fill.solid"], [op |-> "fill.fore_color.rgb", v |-> a.bg] >>
        ELSE << [op |-> "fill.background"] >>)
    \o Flatten([i \in 1..Len(lines_data) |-> multiline_box_item(0, lines_data[i], a)])

multiline_box(lines_data, l, t, w, h, kw) ==
    LET a == kw @@ multiline_box_defaults IN
    << [op |-> "add_textbox", l |-> l, t |-> t, w |-> w, h |-> h],
       [op |-> "word_wrap", v |-> TRUE] >>
    \o (IF Truthy(a.bg)
        THEN << [op |-> "fill.solid"], [op |-> "fill.fore_color.rgb", v |-> a.bg] >>
        ELSE << [op |-> "fill.background"] >>)
    \o Flatten([i \in 1..Len(lines_data) |-> multiline_box_item(i - 1, lines_data[i], a)])

slide_header_without_title(assertion_text) ==
    Flatten(<<
      rect(Inches(0), Inches(0), SLIDE_W, Inches(8), NAVY, <<>>),
      rect(Inches(0), Inches(8), Inches(6), Inches(100), STEEL, <<>>),
      rect(Inches(6), Inches(8), Inches(1327), Inches(100), LGRAY, <<>>),
      rect(Inches(0), Inches(742), SLIDE_W, Inches(8), NAVY, <<>>) >>)

slide_header_title_first(assertion_text) ==
    Flatten(<<
      textbox(assertion_text, Inches(28), Inches(12), Inches(1280), Inches(92),
              [size |-> 22, bold |-> TRUE, color |-> NAVY,
               align |-> PP_ALIGN.LEFT, wrap |-> FALSE]),
      rect(Inches(0), Inches(0), SLIDE_W, Inches(8), NAVY, <<>>),
      rect(Inches(0), Inches(8), Inches(6), Inches(100), STEEL, <<>>),
      rect(Inches(6), Inches(8), Inches(1327), Inches(100), LGRAY, <<>>),
      rect(Inches(0), Inches(742), SLIDE_W, Inches(8), NAVY, <<>>) >>)

slide_header(assertion_text) ==
    Flatten(<<
      rect(Inches(0), Inches(0), SLIDE_W, Inches(8), NAVY, <<>>),
      rect(Inches(0), Inches(8), Inches(6), Inches(100), STEEL, <<>>),
      rect(Inches(6), Inches(8), Inches(1327), Inches(100), LGRAY, <<>>),
      textbox(assertion_text, Inches(28), Inches(12), Inches(1280), Inches(92),
              [size |-> 22, bold |-> TRUE, color |-> NAVY,
               align |-> PP_ALIGN.LEFT, wrap |-> FALSE]),
      rect(Inches(0), Inches(742), SLIDE_W, Inches(8), NAVY, <<>>) >>)

section_label_defaults == [h |-> Inches(32), color |-> NAVY]

section_label(text, l, t, w, kw) ==
    LET a == kw @@ section_label_defaults IN
    textbox(text, l, t, w, a.h,
            [size |-> 12, bold |-> TRUE, color |-> a.color, wrap |-> FALSE])

divider(x) == rect(x, Inches(110), Inches(4), Inches(630), STEEL, <<>>)

add_table_defaults == [col_widths |-> None]

\* lines 162-171, header ci (from 0)
add_table_header(ci, hdr) ==
    << [op |-> "cell", r |-> 0, c |-> ci],
       [op |-> "cell.text", v |-> hdr] >>
    \o _cell_bg(NAVY)
    \o << [op |-> "cell.paragraphs[0]"],
          [op |-> "alignment", v |-> PP_ALIGN.CENTER],
          [op |-> "runs[0]"],
          [op |-> "font.bold", v |-> TRUE],
          [op |-> "font.color.rgb", v |-> WHITE],
          [op |-> "font.size", v |-> Pt(11)],
          [op |-> "font.name", v |-> "Calibri"] >>

row_bg_all_gray(ri) == LGRAY

\* line 174
row_bg(ri) == IF ri % 2 = 0 THEN LGRAY ELSE WHITE

\* lines 176-186, entry ci (from 0) of data row ri (from 0)
add_table_cell(ri, ci, txt) ==
    << [op |-> "cell", r |-> ri + 1, c |-> ci],
       [op |-> "cell.text", v |-> txt] >>
    \o _cell_bg(row_bg(ri))
    \o << [op |-> "cell.paragraphs[0]"],
          [op |-> "runs[0]"],
          [op |-> "font.size", v |-> Pt(10)],
          [op |-> "font.name", v |-> "Calibri"],
          [op |-> "font.color.rgb", v |-> DGRAY] >>
    \o (IF ci = 0
        THEN << [op |-> "font.bold", v |-> TRUE],
                [op |-> "font.color.rgb", v |-> NAVY] >>
        ELSE <<>>)

add_table_one_row_short(headers, rows, l, t, w, h, kw) ==
    LET a  == kw @@ add_table_defaults
        nr == Len(rows)
        nc == Len(headers)
        cws == SubSeq(a.col_widths, 1, IF Len(a.col_widths) < nc
                                       THEN Len(a.col_widths) ELSE nc)
    IN
    << [op |-> "add_table", nr |-> nr, nc |-> nc,
        l |-> l, t |-> t, w |-> w, h |-> h] >>
    \o (IF Truthy(a.col_widths)
        THEN [i \in 1..Len(cws) |-> [op |-> "columns.width", i |-> i - 1, v |-> cws[i]]]
        ELSE <<>>)
    \o Flatten([ci \in 1..Len(headers) |-> add_table_header(ci - 1, headers[ci])])
    \o Flatten([ri \in 1..Len(rows) |->
          Flatten([ci \in 1..Len(rows[ri]) |->
              add_table_cell(ri - 1, ci - 1, rows[ri][ci])])])

add_table(headers, rows, l, t, w, h, kw) ==
    LET a  == kw @@ add_table_defaults
        nr == Len(rows) + 1
        nc == Len(headers)
        cws == SubSeq(a.col_widths, 1, IF Len(a.col_widths) < nc
                                       THEN Len(a.col_widths) ELSE nc)
    IN
    << [op |-> "add_table", nr |-> nr, nc |-> nc,
        l |-> l, t |-> t, w |-> w, h |-> h] >>
    \o (IF Truthy(a.col_widths)
        THEN [i \in 1..Len(cws) |-> [op |-> "columns.width", i |-> i - 1, v |-> cws[i]]]
        ELSE <<>>)
    \o Flatten([ci \in 1..Len(headers) |-> add_table_header(ci - 1, headers[ci])])
    \o Flatten([ri \in 1..Len(rows) |->
          Flatten([ci \in 1..Len(rows[ri]) |->
              add_table_cell(ri - 1, ci - 1, rows[ri][ci])])])

-----------------------------------------------------------------------------
(* The python-pptx objects the script touches, and what each primitive     *)
(* call does to them.  An object is a record of the attributes set on it.  *)

\* what Presentation(path) would load from a saved package
Presentation_opening_saved_file ==
    IF OUTPUT_PATH \in DOMAIN fs /\ Len(fs[OUTPUT_PATH]) > 0
    THEN [slide_width |-> fs[OUTPUT_PATH][1].slide_width,
          slide_height |-> fs[OUTPUT_PATH][1].slide_height,
          slides |-> [i \in 1..(Len(fs[OUTPUT_PATH]) - 1) |-> fs[OUTPUT_PATH][i + 1].slide]]
    ELSE [slide_width |-> Inches(1000), slide_height |-> Inches(750), slides |-> <<>>]

\* Presentation(): the default template, 10 in x 7.5 in, no slides
Presentation == [slide_width |-> Inches(1000), slide_height |-> Inches(750),
                 slides |-> <<>>]

NewSlide == [background |-> [type |-> "inherit"], shapes |-> <<>>]

NewParagraph == [runs |-> <<>>]

NewRun == [text |-> ""]

NewCell == [tcPr |-> <<>>, paragraphs |-> <<NewParagraph>>]

\* no local reference held: cell, p (paragraph, from 1), r (run, from 1)
NoRef == [cell |-> None, p |-> 0, r |-> 0]

Slide(p) == p.slides[Len(p.slides)]

Shape(p) == Slide(p).shapes[Len(Slide(p).shapes)]

HasSlide(p) == Len(p.slides) > 0

HasShape(p) == HasSlide(p) /\ Len(Slide(p).shapes) > 0

PutSlide(p, s) == [p EXCEPT !.slides[Len(p.slides)] = s]

PutShape(p, sh) == PutSlide(p, [Slide(p) EXCEPT !.shapes[Len(Slide(p).shapes)] = sh])

AddShape(p, sh) == PutSlide(p, [Slide(p) EXCEPT !.shapes = Append(@, sh)])

IsTable(p) == HasShape(p) /\ Shape(p).kind = "table"

HasFrame(p, c) ==
    /\ HasShape(p)
    /\ IF c.cell = None THEN "paragraphs" \in DOMAIN Shape(p)
       ELSE IsTable(p) /\ c.cell \in DOMAIN Shape(p).cells

\* the paragraphs of the text frame the references point into
Frame(p, c) ==
    IF c.cell = None THEN Shape(p).paragraphs
    ELSE Shape(p).cells[c.cell].paragraphs

PutFrame(p, c, ps) ==
    IF c.cell = None THEN PutShape(p, Set(Shape(p), "paragraphs", ps))
    ELSE PutShape(p, [Shape(p) EXCEPT !.cells[c.cell].paragraphs = ps])

HasPara(p, c) == HasFrame(p, c) /\ c.p \in 1..Len(Frame(p, c))

HasRun(p, c) == HasPara(p, c) /\ c.r \in 1..Len(Frame(p, c)[c.p].runs)

SetPara(p, c, name, v) ==
    PutFrame(p, c, [Frame(p, c) EXCEPT ![c.p] = Set(@, name, v)])

SetRun(p, c, name, v) ==
    PutFrame(p, c, [Frame(p, c) EXCEPT ![c.p].runs[c.r] = Set(@, name, v)])

HasCell(p, c) == IsTable(p) /\ c.cell # None /\ c.cell \in DOMAIN Shape(p).cells

Cell(p, c) == Shape(p).cells[c.cell]

PutCell(p, c, cl) == PutShape(p, [Shape(p) EXCEPT !.cells[c.cell] = cl])

RemoveAll(children, tag) == SelectSeq(children, LAMBDA e : e.tag # tag)

\* does the library accept primitive call o in this state?  (it raises if not)
OpOk(p, c, o) ==
    CASE o.op = "add_slide" -> TRUE
      [] o.op \in {"background.fill.solid", "add_shape", "add_textbox"} -> HasSlide(p)
      [] o.op = "add_table" -> HasSlide(p) /\ o.nr > 0 /\ o.nc > 0
      [] o.op = "background.fill.fore_color.rgb" ->
            HasSlide(p) /\ Slide(p).background.type = "solid"
      [] o.op \in {"fill.solid", "fill.background"} ->
            HasShape(p) /\ "fill" \in DOMAIN Shape(p)
      [] o.op = "fill.fore_color.rgb" ->
            HasShape(p) /\ "fill" \in DOMAIN Shape(p) /\ Shape(p).fill.type = "solid"
      [] o.op \in {"line.color.rgb", "line.fill.background"} ->
            HasShape(p) /\ "line" \in DOMAIN Shape(p)
      [] o.op \in {"word_wrap", "paragraphs[0]", "add_paragraph"} ->
            HasFrame(p, NoRef)
      [] o.op \in {"alignment", "level", "add_run"} -> HasPara(p, c)
      [] o.op = "runs[0]" -> HasPara(p, c) /\ Len(Frame(p, c)[c.p].runs) > 0
      [] o.op \in {"text", "font.size", "font.bold", "font.italic",
                   "font.color.rgb", "font.name"} -> HasRun(p, c)
      [] o.op = "columns.width" -> IsTable(p) /\ o.i < Len(Shape(p).columns)
      [] o.op = "cell" -> IsTable(p) /\ <<o.r, o.c>> \in DOMAIN Shape(p).cells
      [] o.op \in {"cell.text", "cell.paragraphs[0]", "get_or_add_tcPr",
                   "tcPr.remove", "tcPr.insert"} -> HasCell(p, c)
      [] OTHER -> FALSE   \* "raise"

\* prs.slides.add_slide(layout)
add_slide(p) == [p EXCEPT !.slides = Append(@, NewSlide)]

\* the presentation and the local references after primitive call o
Apply(p, c, o) ==
    LET same(q) == [prs |-> q, cur |-> c]
        ref(q, d) == [prs |-> q, cur |-> d]
    IN
    CASE o.op = "add_slide" -> ref(add_slide(p), NoRef)
      [] o.op = "background.fill.solid" ->
            same(PutSlide(p, [Slide(p) EXCEPT !.background = [type |-> "solid"]]))
      [] o.op = "background.fill.fore_color.rgb" ->
            same(PutSlide(p, [Slide(p) EXCEPT !.background = Set(@, "rgb", o.v)]))
      [] o.op = "add_shape" ->
            ref(AddShape(p, [kind |-> "autoshape", type |-> o.type,
                             l |-> o.l, t |-> o.t, w |-> o.w, h |-> o.h,
                             fill |-> [type |-> "inherit"],
                             line |-> [type |-> "inherit"]]), NoRef)
      [] o.op = "add_textbox" ->
            ref(AddShape(p, [kind |-> "textbox",
                             l |-> o.l, t |-> o.t, w |-> o.w, h |-> o.h,
                             fill |-> [type |-> "inherit"],
                             paragraphs |-> <<NewParagraph>>]), NoRef)
      [] o.op = "add_table" ->
            ref(AddShape(p, [kind |-> "table", nr |-> o.nr, nc |-> o.nc,
                             l |-> o.l, t |-> o.t, w |-> o.w, h |-> o.h,
                             columns |-> [i \in 1..o.nc |-> [width |-> o.w \div o.nc]],
                             cells |-> [rc \in (0..(o.nr - 1)) \X (0..(o.nc - 1))
                                          |-> NewCell]]), NoRef)
      [] o.op = "fill.solid" -> same(PutShape(p, Set(Shape(p), "fill", [type |-> "solid"])))
      [] o.op = "fill.background" ->
            same(PutShape(p, Set(Shape(p), "fill", [type |-> "none"])))
      [] o.op = "fill.fore_color.rgb" ->
            same(PutShape(p, [Shape(p) EXCEPT !.fill = Set(@, "rgb", o.v)]))
      [] o.op = "line.color.rgb" ->
            same(PutShape(p, Set(Shape(p), "line", [type |-> "solid", rgb |-> o.v])))
      [] o.op = "line.fill.background" ->
            same(PutShape(p, Set(Shape(p), "line", [type |-> "none"])))
      [] o.op = "word_wrap" -> same(PutShape(p, Set(Shape(p), "word_wrap", o.v)))
      [] o.op = "paragraphs[0]" -> ref(p, [cell |-> None, p |-> 1, r |-> 0])
      [] o.op = "add_paragraph" ->
            ref(PutFrame(p, NoRef, Append(Frame(p, NoRef), NewParagraph)),
                [cell |-> None, p |-> Len(Frame(p, NoRef)) + 1, r |-> 0])
      [] o.op = "alignment" -> same(SetPara(p, c, "alignment", o.v))
      [] o.op = "level" -> same(SetPara(p, c, "level", o.v))
      [] o.op = "add_run" ->
            ref(PutFrame(p, c, [Frame(p, c) EXCEPT ![c.p].runs = Append(@, NewRun)]),
                [c EXCEPT !.r = Len(Frame(p, c)[c.p].runs) + 1])
      [] o.op = "runs[0]" -> ref(p, [c EXCEPT !.r = 1])
      [] o.op = "text" -> same(SetRun(p, c, "text", o.v))
      [] o.op = "font.size" -> same(SetRun(p, c, "size", o.v))
      [] o.op = "font.bold" -> same(SetRun(p, c, "bold", o.v))
      [] o.op = "font.italic" -> same(SetRun(p, c, "italic", o.v))
      [] o.op = "font.color.rgb" -> same(SetRun(p, c, "color", o.v))
      [] o.op = "font.name" -> same(SetRun(p, c, "name", o.v))
      [] o.op = "columns.width" ->
            same(PutShape(p, [Shape(p) EXCEPT !.columns[o.i + 1].width = o.v]))
      [] o.op = "cell" -> ref(p, [cell |-> <<o.r, o.c>>, p |-> 0, r |-> 0])
      [] o.op = "cell.text" ->
            same(PutCell(p, c, [Cell(p, c) EXCEPT
                   !.paragraphs = << [runs |-> << [text |-> o.v] >>] >>]))
      [] o.op = "cell.paragraphs[0]" -> ref(p, [c EXCEPT !.p = 1, !.r = 0])
      [] o.op = "get_or_add_tcPr" ->
            same(IF "tcPr" \in DOMAIN Cell(p, c) THEN p
                 ELSE PutCell(p, c, Set(Cell(p, c), "tcPr", <<>>)))
      [] o.op = "tcPr.remove" ->
            same(PutCell(p, c, [Cell(p, c) EXCEPT !.tcPr = RemoveAll(@, o.tag)]))
      [] o.op = "tcPr.insert" ->
            same(PutCell(p, c, [Cell(p, c) EXCEPT
                   !.tcPr = SubSeq(@, 1, o.at) \o <<o.e>> \o SubSeq(@, o.at + 1, Len(@))]))

-----------------------------------------------------------------------------
(* Slide builders, lines 194-743.  `return slide` is no primitive call. *)

build_slide1 ==
    Flatten(<<
      << [op |-> "add_slide"] >>,
      set_bg(NAVY),
      rect(Inches(0), Inches(310), SLIDE_W, Inches(5), STEEL, <<>>),
      textbox("Campus Analytics Platform",
              Inches(50), Inches(150), Inches(1230), Inches(150),
              [size |-> 44, bold |-> TRUE, color |-> WHITE, align |-> PP_ALIGN.CENTER]),
      textbox("SWENG 861 \\u2013 Software Construction  |  Spring 2026",
              Inches(50), Inches(320), Inches(1230), Inches(80),
              [size |-> 22, bold |-> FALSE, color |-> LBLUE, align |-> PP_ALIGN.CENTER]),
      textbox("Jomar Thomas Almonte",
              Inches(50), Inches(415), Inches(1230), Inches(65),
              [size |-> 20, bold |-> TRUE, color |-> WHITE, align |-> PP_ALIGN.CENTER]),
      textbox("Pennsylvania State University",
              Inches(50), Inches(485), Inches(1230), Inches(55),
              [size |-> 15, color |-> LBLUE, align |-> PP_ALIGN.CENTER]) >>)

\* build_slide2, lines 229-241: the literal `problem`
slide2_problem ==
    <<
      <<"Departments track metrics in spreadsheets.", 13, FALSE, DGRAY>>,
      <<"That creates three specific failures:", 13, FALSE, DGRAY>>,
      <<"", 6>>,
      <<"\\u2717  No audit trail \\u2014 who changed what, and when?", 13, FALSE, RED_DK>>,
      <<"\\u2717  No access control \\u2014 any user can edit any data", 13, FALSE, RED_DK>>,
      <<"\\u2717  No single source of truth \\u2014 data silos per dept", 13, FALSE, RED_DK>>,
      <<"", 6>>,
      <<"Who is affected:", 12, TRUE, NAVY>>,
      <<"Faculty          enrollment trends & academic KPIs", 12, FALSE, DGRAY>>,
      <<"Dept heads       facilities & financial monitoring", 12, FALSE, DGRAY>>,
      <<"Admins           cross-domain oversight & audit", 12, FALSE, DGRAY>> >>

\* build_slide2, lines 249-262: the literal `solution`
slide2_solution ==
    <<
      <<"\\u2713  JWT + OAuth auth, bcrypt, rate limiting", 13, FALSE, GRN_DK>>,
      <<"\\u2713  5-category metrics CRUD + admin master view", 13, FALSE, GRN_DK>>,
      <<"\\u2713  Live weather widget (\\u00B0F / mph, Penn State)", 13, FALSE, GRN_DK>>,
      <<"\\u2713  Domain event audit trail \\u2014 append-only", 13, FALSE, GRN_DK>>,
      <<"\\u2713  Prometheus + Grafana observability", 13, FALSE, GRN_DK>>,
      <<"\\u2713  GitHub Actions CI/CD pipeline", 13, FALSE, GRN_DK>>,
      <<"\\u2713  Non-root Docker, 3-stage multi-stage build", 13, FALSE, GRN_DK>>,
      <<"", 6>>,
      <<"Non-Functional Requirements \\u2014 met, not aspirational:", 12, TRUE, NAVY>>,
      <<"Security     OWASP Top 10 mitigations applied", 12, FALSE, DGRAY>>,
      <<"Reliability  \\u226599.5% availability, p95 \\u2264 500 ms", 12, FALSE, DGRAY>>,
      <<"Testing      320 automated tests block broken builds", 12, FALSE, DGRAY>> >>

build_slide2_on_last_slide ==
    Flatten(<<
      set_bg(WHITE),
      slide_header("Campus Analytics Eliminates University Metrics Data Silos"),
      section_label("The Problem", Inches(30), Inches(115), Inches(590), <<>>),
      multiline_box(slide2_problem, Inches(30), Inches(150), Inches(590), Inches(580), <<>>),
      divider(Inches(635)),
      section_label("The Solution: 7 Features Shipped",
                    Inches(655), Inches(115), Inches(650), <<>>),
      multiline_box(slide2_solution, Inches(655), Inches(150), Inches(650), Inches(580), <<>>) >>)

build_slide2 ==
    Flatten(<<
      << [op |-> "add_slide"] >>,
      set_bg(WHITE),
      slide_header("Campus Analytics Eliminates University Metrics Data Silos"),
      section_label("The Problem", Inches(30), Inches(115), Inches(590), <<>>),
      multiline_box(slide2_problem, Inches(30), Inches(150), Inches(590), Inches(580), <<>>),
      divider(Inches(635)),
      section_label("The Solution: 7 Features Shipped",
                    Inches(655), Inches(115), Inches(650), <<>>),
      multiline_box(slide2_solution, Inches(655), Inches(150), Inches(650), Inches(580), <<>>) >>)

\* build_slide3, lines 280-298: the literal `left`
slide3_left ==
    <<
      <<"One codebase. One Docker image. No split deploy.", 13, TRUE, NAVY>>,
      <<"", 5>>,
      <<"Frontend", 12, TRUE, NAVY>>,
      <<"Next.js 15 App Router (SSR) + React 19", 12, FALSE, DGRAY>>,
      <<"TailwindCSS 4 \\u2014 zero custom CSS files", 12, FALSE, DGRAY>>,
      <<"", 5>>,
      <<"API \\u2014 15 route handlers", 12, TRUE, NAVY>>,
      <<"JWT Bearer + NextAuth session auth", 12, FALSE, DGRAY>>,
      <<"4-tier rate limiting + BOLA owner checks", 12, FALSE, DGRAY>>,
      <<"", 5>>,
      <<"Data \\u2014 SQLite + Sequelize ORM", 12, TRUE, NAVY>>,
      <<"4 models: User, Metric, WeatherData, DomainEvent", 12, FALSE, DGRAY>>,
      <<"CASCADE deletes enforce referential integrity", 12, FALSE, DGRAY>>,
      <<"", 5>>,
      <<"External", 12, TRUE, NAVY>>,
      <<"Open-Meteo weather  (free, keyless)", 12, FALSE, DGRAY>>,
      <<"Google OAuth 2.0 via NextAuth  (optional)", 12, FALSE, DGRAY>> >>

\* build_slide3, lines 302-326: the literal `diagram`
slide3_diagram ==
    "\\u250C\\u2500\\u2500\\u2500\\u2500\\u2500\\u2500\\u2500\\u2500\\u2500\\u2500\\u2500\\u2500\\u2500\\u2500\\u2500\\u2500\\u2500\\u2500\\u2500\\u2500\\u2500\\u2500\\u2500\\u2500\\u2500\\u2500\\u2500\\u2500\\u2500\\u2500\\u2500\\u2500\\u2500\\u2500\\u2510\n\\u2502  Browser (React 19 + Next.js 15) \\u2502\n\\u2502  Dashboard \\u2502 Login \\u2502 Metrics      \\u2502\n\\u2502  Weather Widget \\u2502 Forms           \\u2502\n\\u2514\\u2500\\u2500\\u2500\\u2500\\u2500\\u2500\\u2500\\u2500\\u2500\\u2500\\u2500\\u2500\\u2500\\u2500\\u2500\\u2500\\u2500\\u252C\\u2500\\u2500\\u2500\\u2500\\u2500\\u2500\\u2500\\u2500\\u2500\\u2500\\u2500\\u2500\\u2500\\u2500\\u2500\\u2500\\u2518\n                  \\u2502 HTTPS / JWT\n\\u250C\\u2500\\u2500\\u2500\\u2500\\u2500\\u2500\\u2500\\u2500\\u2500\\u2500\\u2500\\u2500\\u2500\\u2500\\u2500\\u2500\\u2500\\u25BC\\u2500\\u2500\\u2500\\u2500\\u2500\\u2500\\u2500\\u2500\\u2500\\u2500\\u2500\\u2500\\u2500\\u2500\\u2500\\u2500\\u2510\n\\u2502  Next.js API Routes (Node.js)    \\u2502\n\\u2502  Auth \\u2502 Rate Limit \\u2502 Validation  \\u2502\n\\u2502  15 route handlers               \\u2502\n\\u2514\\u2500\\u2500\\u2500\\u2500\\u2500\\u2500\\u252C\\u2500\\u2500\\u2500\\u2500\\u2500\\u2500\\u2500\\u2500\\u2500\\u2500\\u2500\\u2500\\u2500\\u2500\\u2500\\u2500\\u2500\\u2500\\u252C\\u2500\\u2500\\u2500\\u2500\\u2500\\u2500\\u2500\\u2500\\u2518\n       \\u2502                  \\u2502\n\\u250C\\u2500\\u2500\\u2500\\u2500\\u2500\\u2500\\u25BC\\u2500\\u2500\\u2500\\u2500\\u2500\\u2500\\u2510  \\u250C\\u2500\\u2500\\u2500\\u2500\\u2500\\u2500\\u2500\\u2500\\u25BC\\u2500\\u2500\\u2500\\u2500\\u2500\\u2500\\u2500\\u2510\n\\u2502  SQLite DB   \\u2502  \\u2502 Open-Meteo API \\u2502\n\\u2502  Sequelize   \\u2502  \\u2502 (cached 10min) \\u2502\n\\u2502  4 models    \\u2502  \\u2514\\u2500\\u2500\\u2500\\u2500\\u2500\\u2500\\u2500\\u2500\\u2500\\u2500\\u2500\\u2500\\u2500\\u2500\\u2500\\u2500\\u2518\n\\u2514\\u2500\\u2500\\u2500\\u2500\\u2500\\u2500\\u252C\\u2500\\u2500\\u2500\\u2500\\u2500\\u2500\\u2518\n       \\u2502\n\\u250C\\u2500\\u2500\\u2500\\u2500\\u2500\\u2500\\u25BC\\u2500\\u2500\\u2500\\u2500\\u2500\\u2500\\u2500\\u2500\\u2500\\u2500\\u2500\\u2500\\u2500\\u2500\\u2500\\u2500\\u2500\\u2500\\u2500\\u2500\\u2500\\u2500\\u2500\\u2500\\u2500\\u2500\\u2510\n\\u2502  DevOps Layer                   \\u2502\n\\u2502  Docker \\u2502 GitHub Actions        \\u2502\n\\u2502  Prometheus \\u2502 Grafana           \\u2502\n\\u2514\\u2500\\u2500\\u2500\\u2500\\u2500\\u2500\\u2500\\u2500\\u2500\\u2500\\u2500\\u2500\\u2500\\u2500\\u2500\\u2500\\u2500\\u2500\\u2500\\u2500\\u2500\\u2500\\u2500\\u2500\\u2500\\u2500\\u2500\\u2500\\u2500\\u2500\\u2500\\u2500\\u2500\\u2518"

build_slide3 ==
    Flatten(<<
      << [op |-> "add_slide"] >>,
      set_bg(WHITE),
      slide_header("Next.js 15 Collapses Frontend and API Into One Deploy Unit"),
      multiline_box(slide3_left, Inches(30), Inches(120), Inches(550), Inches(610), <<>>),
      \* lines 328-338; Pt(9.5) = int(9.5 * 12700)
      << [op |-> "add_textbox", l |-> Inches(610), t |-> Inches(120),
          w |-> Inches(690), h |-> Inches(610)],
         [op |-> "word_wrap", v |-> FALSE],
         [op |-> "fill.solid"],
         [op |-> "fill.fore_color.rgb", v |-> MONO_BG],
         [op |-> "paragraphs[0]"],
         [op |-> "add_run"],
         [op |-> "text", v |-> slide3_diagram],
         [op |-> "font.size", v |-> Pt(19) \div 2],
         [op |-> "font.name", v |-> "Courier New"],
         [op |-> "font.color.rgb", v |-> DGRAY] >> >>)

\* build_slide4, lines 354-354: the literal `headers`
slide4_headers ==
    <<
      "Layer",
      "Technology",
      "Why This Choice \\u2014 The Evidence" >>

\* build_slide4, lines 355-374: the literal `rows`
slide4_rows ==
    <<
      <<
        "Frontend",
        "Next.js 15 App Router",
        "UI + API in one image \\u2014 no separate server, no CORS, no split deploy" >>,
      <<
        "UI",
        "React 19 + TailwindCSS 4",
        "Utility-first styling: zero custom CSS files in the entire codebase" >>,
      <<
        "Auth",
        "NextAuth 4 + JWT",
        "One getAuthUser() handles both token types \\u2014 routes are unaware of the difference" >>,
      <<
        "Database",
        "SQLite + Sequelize 6",
        "File-based DB starts with zero infrastructure; ORM makes models unit-testable" >>,
      <<
        "3rd Party",
        "Open-Meteo Weather API",
        "Free and keyless \\u2014 zero secrets to manage, rotate, or accidentally leak" >>,
      <<
        "Testing",
        "Jest 30 + React Testing Library",
        "~320 self-contained tests run in CI; broken builds never reach Docker" >>,
      <<
        "Containers",
        "Docker (3-stage multi-stage)",
        "Alpine + non-root user nextjs:1001 \\u2014 minimal image, minimal attack surface" >>,
      <<
        "CI/CD",
        "GitHub Actions",
        "push \\u2192 test \\u2192 audit \\u2192 Docker package \\u2014 no manual deploy steps ever" >>,
      <<
        "Observability",
        "Prometheus + Grafana",
        "4 metrics, 5-panel SLO dashboard, zero external cloud dependency" >> >>

build_slide4 ==
    Flatten(<<
      << [op |-> "add_slide"] >>,
      set_bg(WHITE),
      slide_header("Every Technology Choice Minimizes Overhead and Maximizes Testability"),
      add_table(slide4_headers, slide4_rows,
                Inches(25), Inches(120), Inches(1283), Inches(605),
                [col_widths |-> <<Inches(135), Inches(230), Inches(918)>>]) >>)

\* build_slide5, lines 397-414: the literal `left`
slide5_left ==
    <<
      <<"Three token paths \\u2014 one code path:", 13, TRUE, NAVY>>,
      <<"API clients       JWT Bearer (1-hr expiry)", 13, FALSE, DGRAY>>,
      <<"Browser users     NextAuth session cookie", 13, FALSE, DGRAY>>,
      <<"OAuth users       /api/auth/token bridge", 13, FALSE, DGRAY>>,
      <<"", 5>>,
      <<"One getAuthUser() handles all three transparently.", 12, FALSE, DGRAY>>,
      <<"", 5>>,
      <<"Brute force blocked at four layers:", 13, TRUE, NAVY>>,
      <<"Rate limit: 5 auth requests / 15 min / IP", 13, FALSE, DGRAY>>,
      <<"bcrypt cost 12 \\u2192 deliberate 200 ms+ per hash", 13, FALSE, DGRAY>>,
      <<"JWT expiry limits stolen-token blast radius", 13, FALSE, DGRAY>>,
      <<"", 5>>,
      <<"Five security headers on every response:", 13, TRUE, NAVY>>,
      <<"HSTS  |  X-Frame-Options: DENY  |  nosniff", 13, FALSE, DGRAY>>,
      <<"Owner BOLA check on all CRUD routes", 13, FALSE, DGRAY>>,
      <<"Sensitive keys stripped from all log output", 13, FALSE, DGRAY>> >>

\* build_slide5, lines 422-437: the literal `right`
slide5_right ==
    <<
      <<"Metrics CRUD \\u2014 validated at every boundary:", 13, TRUE, NAVY>>,
      <<"5 enum categories (server-enforced)", 13, FALSE, DGRAY>>,
      <<"UUID keys prevent ID enumeration attacks", 13, FALSE, DGRAY>>,
      <<"Admin sees ALL; users see only their own", 13, FALSE, DGRAY>>,
      <<"US format: 47,892 students  |  $2.1B USD", 13, FALSE, DGRAY>>,
      <<"", 5>>,
      <<"Weather \\u2014 fetched once, cached ten minutes:", 13, TRUE, NAVY>>,
      <<"Open-Meteo, Penn State coords (40.7983\\u00B0N)", 13, FALSE, DGRAY>>,
      <<"US units: \\u00B0F temperature, mph wind speed", 13, FALSE, DGRAY>>,
      <<"", 5>>,
      <<"Audit trail \\u2014 every mutation, append-only:", 13, TRUE, NAVY>>,
      <<"metric.created / updated / deleted", 13, FALSE, DGRAY>>,
      <<"Async write \\u2014 does not slow API response", 13, FALSE, DGRAY>>,
      <<"Events are never modified \\u2014 true audit log", 13, FALSE, DGRAY>> >>

build_slide5 ==
    Flatten(<<
      << [op |-> "add_slide"] >>,
      set_bg(WHITE),
      slide_header("Multi-Layer Defense and Seven Features Deliver Production-Grade Security"),
      section_label("Auth & Security", Inches(30), Inches(115), Inches(600), <<>>),
      multiline_box(slide5_left, Inches(30), Inches(152), Inches(600), Inches(580), <<>>),
      divider(Inches(645)),
      section_label("Data Features", Inches(665), Inches(115), Inches(640), <<>>),
      multiline_box(slide5_right, Inches(665), Inches(152), Inches(640), Inches(580), <<>>) >>)

\* build_slide6, lines 458-476: the literal `pipeline`
slide6_pipeline ==
    "push / PR to main\n       \\u2502\n  \\u250C\\u2500\\u2500\\u2500\\u2500\\u25BC\\u2500\\u2500\\u2500\\u2500\\u2500\\u2500\\u2500\\u2500\\u2500\\u2500\\u2500\\u2500\\u2500\\u2500\\u2500\\u2500\\u2500\\u2500\\u2500\\u2500\\u2500\\u2500\\u2500\\u2500\\u2500\\u2500\\u2500\\u2500\\u2510\n  \\u2502  JOB 1 \\u2014 build-and-test         \\u2502\n  \\u2502  npm ci  (lockfile-exact)        \\u2502\n  \\u2502  npm run build                   \\u2502\n  \\u2502  npm run test:coverage  \\u25C4\\u2500\\u2500\\u2500\\u2500\\u2500\\u2500\\u2500\\u2500\\u253C\\u2500\\u2500 QUALITY GATE\n  \\u2502    no continue-on-error          \\u2502   failure stops here\n  \\u2502  npm audit --audit-level=high    \\u2502\n  \\u2514\\u2500\\u2500\\u2500\\u2500\\u252C\\u2500\\u2500\\u2500\\u2500\\u2500\\u2500\\u2500\\u2500\\u2500\\u2500\\u2500\\u2500\\u2500\\u2500\\u2500\\u2500\\u2500\\u2500\\u2500\\u2500\\u2500\\u2500\\u2500\\u2500\\u2500\\u2500\\u2500\\u2500\\u2518\n       \\u2502  only if JOB 1 passes\n  \\u250C\\u2500\\u2500\\u2500\\u2500\\u25BC\\u2500\\u2500\\u2500\\u2500\\u2500\\u2500\\u2500\\u2500\\u2500\\u2500\\u2500\\u2500\\u2500\\u2500\\u2500\\u2500\\u2500\\u2500\\u2500\\u2500\\u2500\\u2500\\u2500\\u2500\\u2500\\u2500\\u2500\\u2500\\u2510\n  \\u2502  JOB 2 \\u2014 docker-build           \\u2502\n  \\u2502  3-stage build (Alpine)          \\u2502\n  \\u2502  non-root user nextjs:1001       \\u2502\n  \\u2502  smoke test: curl /api/health\\u00D75  \\u2502\n  \\u2514\\u2500\\u2500\\u2500\\u2500\\u2500\\u2500\\u2500\\u2500\\u2500\\u2500\\u2500\\u2500\\u2500\\u2500\\u2500\\u2500\\u2500\\u2500\\u2500\\u2500\\u2500\\u2500\\u2500\\u2500\\u2500\\u2500\\u2500\\u2500\\u2500\\u2500\\u2500\\u2500\\u2500\\u2518"

\* build_slide6, lines 495-513: the literal `right`
slide6_right ==
    <<
      <<"Three health endpoints \\u2014 each has one role:", 13, TRUE, NAVY>>,
      <<"/api/health        load balancer heartbeat (always 200)", 12, FALSE, DGRAY>>,
      <<"/api/health/live   Kubernetes liveness probe (always 200)", 12, FALSE, DGRAY>>,
      <<"/api/health/ready  readiness probe (503 if DB is down)", 12, FALSE, DGRAY>>,
      <<"", 5>>,
      <<"Structured JSON logging:", 13, TRUE, NAVY>>,
      <<"{timestamp, level, message, \\u2026meta}", 12, FALSE, DGRAY>>,
      <<"password / token / secret \\u2014 stripped on every write", 12, FALSE, DGRAY>>,
      <<"", 5>>,
      <<"Four Prometheus metric families:", 13, TRUE, NAVY>>,
      <<"http_requests_total          traffic by route + status", 12, FALSE, DGRAY>>,
      <<"http_request_duration_ms     latency histogram", 12, FALSE, DGRAY>>,
      <<"metrics_created_total        domain KPI counter", 12, FALSE, DGRAY>>,
      <<"auth_logins_total            security event signal", 12, FALSE, DGRAY>>,
      <<"", 5>>,
      <<"Grafana: 5-panel dashboard, auto-provisioned on start", 12, FALSE, DGRAY>>,
      <<"SLOs: availability \\u2265 99.5%  |  p95 latency \\u2264 500 ms", 13, TRUE, NAVY>> >>

build_slide6 ==
    Flatten(<<
      << [op |-> "add_slide"] >>,
      set_bg(WHITE),
      slide_header("Every Commit Is Automatically Built, Tested, and Packaged \\u2014 No Manual Steps"),
      section_label("CI/CD Pipeline  (triggers on every push / PR to main)",
                    Inches(30), Inches(115), Inches(610), <<>>),
      \* lines 478-488
      << [op |-> "add_textbox", l |-> Inches(30), t |-> Inches(152),
          w |-> Inches(610), h |-> Inches(580)],
         [op |-> "word_wrap", v |-> FALSE],
         [op |-> "fill.solid"],
         [op |-> "fill.fore_color.rgb", v |-> MONO_BG],
         [op |-> "paragraphs[0]"],
         [op |-> "add_run"],
         [op |-> "text", v |-> slide6_pipeline],
         [op |-> "font.size", v |-> Pt(10)],
         [op |-> "font.name", v |-> "Courier New"],
         [op |-> "font.color.rgb", v |-> DGRAY] >>,
      divider(Inches(655)),
      section_label("Observability Stack", Inches(675), Inches(115), Inches(630), <<>>),
      multiline_box(slide6_right, Inches(675), Inches(152), Inches(630), Inches(580), <<>>) >>)

\* build_slide7, lines 534-534: the literal `headers`
slide7_headers ==
    <<
      "Flaw Found in AI Output",
      "Risk if Shipped",
      "Fix Applied" >>

\* build_slide7, lines 535-545: the literal `rows`
slide7_rows ==
    <<
      <<
        "Hard-coded JWT_SECRET in YAML\n(e.g. JWT_SECRET: \"supersecret123\")",
        "Credentials permanently visible in git history to anyone with repo access",
        "${{ secrets.JWT_SECRET || 'safe-ci-fallback' }}\nreferenced from GitHub Secrets" >>,
      <<
        "continue-on-error: true\non the Jest test step",
        "Failing tests produce a green pipeline;\nbroken code gets packaged into Docker",
        "Flag removed entirely \\u2014 test failure\nnow kills the pipeline (quality gate)" >>,
      <<
        "No USER directive\nin Dockerfile runtime stage",
        "Container process runs as root;\nRCE exploit \\u2192 attacker gets host root",
        "addgroup nodejs + adduser nextjs\nUSER nextjs (UID 1001) before CMD" >> >>

\* build_slide7, lines 554-560: the literal `challenges`
slide7_challenges ==
    <<
      <<"ESM/CJS interop  \\u2192  Next.js webpack layer", 11, FALSE, DGRAY>>,
      <<"Prometheus singleton lost on hot reload  \\u2192  global.__campusMetrics pattern", 11, FALSE, DGRAY>>,
      <<"sync(alter:true) wiped all data on restart  \\u2192  changed to sync()", 11, FALSE, DGRAY>>,
      <<"Middleware secret mismatch \\u2192 auth loop  \\u2192  aligned 3-level fallback chains", 11, FALSE, DGRAY>>,
      <<"OAuth users got 401 on every API call  \\u2192  /api/auth/token bridge + JwtSynchronizer", 11, FALSE, DGRAY>> >>

\* build_slide7, lines 564-573: the literal `lesson`
slide7_lesson ==
    <<
      <<"Lesson:", 13, TRUE, NAVY>>,
      <<"", 4>>,
      <<"AI optimizes for working code,", 13, FALSE, DGRAY>>,
      <<"not security defaults.", 13, FALSE, DGRAY>>,
      <<"", 4>>,
      <<"Every AI-generated DevOps", 13, FALSE, DGRAY>>,
      <<"artifact needs a manual", 13, FALSE, DGRAY>>,
      <<"security review before commit.", 13, FALSE, DGRAY>> >>

build_slide7 ==
    Flatten(<<
      << [op |-> "add_slide"] >>,
      set_bg(WHITE),
      slide_header("AI-Generated Code Contained 3 Security Flaws \\u2014 All Caught by Manual Review"),
      section_label("Evidence: AI Audit Findings (CI/CD YAML + Dockerfile)",
                    Inches(30), Inches(115), Inches(900), <<>>),
      add_table(slide7_headers, slide7_rows,
                Inches(30), Inches(152), Inches(1273), Inches(330),
                [col_widths |-> <<Inches(320), Inches(473), Inches(480)>>]),
      section_label("5 Technical Challenges Also Resolved",
                    Inches(30), Inches(495), Inches(900), <<>>),
      multiline_box(slide7_challenges, Inches(30), Inches(530), Inches(950), Inches(200), <<>>),
      multiline_box(slide7_lesson, Inches(1000), Inches(495), Inches(300), Inches(240), <<>>) >>)

\* zip(titles, columns) stops at the shorter of the two
ZipLen(a, b) == IF Len(a) < Len(b) THEN Len(a) ELSE Len(b)

\* lines 590-591 and 674-675
col_w == Inches(415)
gap == Inches(13)

\* one iteration (i from 0) of the loops at lines 652-658 and 736-742
three_columns_without_gap(titles, columns, i) ==
    LET left == Inches(20) + i * col_w IN
    Flatten(<<
      section_label(titles[i + 1], left, Inches(115), col_w, <<>>),
      multiline_box(columns[i + 1], left, Inches(152), col_w, Inches(585), <<>>),
      IF i < 2
      THEN rect(left + col_w + Inches(5), Inches(110), Inches(4), Inches(630), STEEL, <<>>)
      ELSE <<>> >>)

three_columns(titles, columns, i) ==
    LET left == Inches(20) + i * (col_w + gap) IN
    Flatten(<<
      section_label(titles[i + 1], left, Inches(115), col_w, <<>>),
      multiline_box(columns[i + 1], left, Inches(152), col_w, Inches(585), <<>>),
      IF i < 2
      THEN rect(left + col_w + Inches(5), Inches(110), Inches(4), Inches(630), STEEL, <<>>)
      ELSE <<>> >>)

\* build_slide8, lines 593-597: the literal `titles`
slide8_titles ==
    <<
      "Unit Tests \\u2014 196 cases, 7 files",
      "Frontend Tests \\u2014 124 cases, 7 files",
      "Integration + CI Enforcement" >>

\* build_slide8, lines 598-650: the literal `columns`
slide8_columns ==
    <<
      <<
        <<"Fast, isolated \\u2014 no external dependencies", 12, TRUE, NAVY>>,
        <<"", 4>>,
        <<"auth.test.js", 12, FALSE, DGRAY>>,
        <<"  JWT sign/verify, expiry edge cases", 11, FALSE, DGRAY>>,
        <<"validation.test.js", 12, FALSE, DGRAY>>,
        <<"  All field constraints, enum values", 11, FALSE, DGRAY>>,
        <<"rateLimit.test.js", 12, FALSE, DGRAY>>,
        <<"  Window reset, IP extraction, limits", 11, FALSE, DGRAY>>,
        <<"eventEmitter.test.js", 12, FALSE, DGRAY>>,
        <<"  Domain event handlers, async flow", 11, FALSE, DGRAY>>,
        <<"apiErrors.test.js", 12, FALSE, DGRAY>>,
        <<"  Error class hierarchy, HTTP codes", 11, FALSE, DGRAY>>,
        <<"weatherService.test.js", 12, FALSE, DGRAY>>,
        <<"  Cache hits, coordinate validation", 11, FALSE, DGRAY>>,
        <<"middleware.test.js", 12, FALSE, DGRAY>>,
        <<"  Security headers, auth redirect", 11, FALSE, DGRAY>> >>,
      <<
        <<"React Testing Library + jsdom \\u2014 no browser", 12, TRUE, NAVY>>,
        <<"", 4>>,
        <<"LoginPage.test.js", 12, FALSE, DGRAY>>,
        <<"  Form submit, errors, OAuth button", 11, FALSE, DGRAY>>,
        <<"MetricForm.test.js", 12, FALSE, DGRAY>>,
        <<"  Validation messages, edit mode", 11, FALSE, DGRAY>>,
        <<"Navbar.test.js", 12, FALSE, DGRAY>>,
        <<"  Auth-aware link rendering", 11, FALSE, DGRAY>>,
        <<"WeatherWidget.test.js", 12, FALSE, DGRAY>>,
        <<"  Fetch, loading, error states", 11, FALSE, DGRAY>>,
        <<"AuthProvider.test.js", 12, FALSE, DGRAY>>,
        <<"  NextAuth session wrapper", 11, FALSE, DGRAY>>,
        <<"apiClient.test.js", 12, FALSE, DGRAY>>,
        <<"  Token injection, 401 redirect", 11, FALSE, DGRAY>>,
        <<"Spinner.test.js", 12, FALSE, DGRAY>>,
        <<"  Loading UI component", 11, FALSE, DGRAY>> >>,
      <<
        <<"Real HTTP calls against live server :3001", 12, TRUE, NAVY>>,
        <<"", 4>>,
        <<"api.test.js  (Node --test runner)", 12, FALSE, DGRAY>>,
        <<"  register \\u2192 login", 11, FALSE, DGRAY>>,
        <<"  \\u2192 CRUD metrics (create/read/update/delete)", 11, FALSE, DGRAY>>,
        <<"  \\u2192 weather endpoint fetch", 11, FALSE, DGRAY>>,
        <<"  \\u2192 domain events table", 11, FALSE, DGRAY>>,
        <<"  Run locally \\u2014 require server on :3001", 11, FALSE, DGRAY>>,
        <<"", 4>>,
        <<"CI quality gate:", 12, TRUE, NAVY>>,
        <<"  Jest runs on every push to main", 11, FALSE, DGRAY>>,
        <<"  Pipeline FAILS if any test fails", 11, FALSE, RED_DK>>,
        <<"  Coverage report artifact (14 days)", 11, FALSE, DGRAY>> >> >>

build_slide8 ==
    Flatten(<<
      << [op |-> "add_slide"] >>,
      set_bg(WHITE),
      slide_header("320 Tests Across Three Isolation Layers Form a CI Quality Gate"),
      Flatten([i \in 1..ZipLen(slide8_titles, slide8_columns) |->
                  three_columns(slide8_titles, slide8_columns, i - 1)]) >>)

\* build_slide9, lines 677-681: the literal `titles`
slide9_titles ==
    <<
      "Evidence: Built From Scratch",
      "Evidence: Lessons That Transfer to Production",
      "Evidence: What Breaks at Scale" >>

\* build_slide9, lines 682-734: the literal `columns`
slide9_columns ==
    <<
      <<
        <<"Zero-dependency Prometheus module", 13, TRUE, NAVY>>,
        <<"lib/metrics.js: 170 lines, pure Node.js", 12, FALSE, DGRAY>>,
        <<"No prom-client \\u2014 implements text-format 0.0.4", 12, FALSE, DGRAY>>,
        <<"Global singleton survives hot reloads", 12, FALSE, DGRAY>>,
        <<"", 5>>,
        <<"Multi-layer auth with OAuth bridge", 13, TRUE, NAVY>>,
        <<"JWT + NextAuth + /api/auth/token endpoint", 12, FALSE, DGRAY>>,
        <<"One getAuthUser() handles all three paths", 12, FALSE, DGRAY>>,
        <<"", 5>>,
        <<"Week 7 QA found bugs unit tests missed:", 13, TRUE, NAVY>>,
        <<"sync(alter:true) silently wiped seed data", 12, FALSE, DGRAY>>,
        <<"Middleware secret mismatch \\u2192 redirect loop", 12, FALSE, DGRAY>>,
        <<"Both found only via live end-to-end testing", 12, FALSE, DGRAY>> >>,
      <<
        <<"Log JSON before you ever need it", 13, TRUE, NAVY>>,
        <<"Shared lib/logger.js made per-route logging", 12, FALSE, DGRAY>>,
        <<"a 2-line add \\u2014 not a 15-file refactor", 12, FALSE, DGRAY>>,
        <<"", 5>>,
        <<"AI drafts; humans review for security", 13, TRUE, NAVY>>,
        <<"3 flaws in AI-generated CI YAML", 12, FALSE, DGRAY>>,
        <<"2 infra bugs surfaced only in live QA", 12, FALSE, DGRAY>>,
        <<"Security review is non-negotiable", 12, FALSE, DGRAY>>,
        <<"", 5>>,
        <<"End-to-end testing finds what unit tests miss", 13, TRUE, NAVY>>,
        <<"All 320 tests passed throughout development", 12, FALSE, DGRAY>>,
        <<"Runtime failures emerged only in the live app", 12, FALSE, DGRAY>>,
        <<"", 5>>,
        <<"\"These patterns appear in every production", 12, FALSE, NAVY>>,
        <<"system I will work on. This project gave me", 12, FALSE, NAVY>>,
        <<"hands-on practice with all of them.\"", 12, FALSE, NAVY>> >>,
      <<
        <<"SQLite \\u2192 PostgreSQL + connection pooling", 13, TRUE, NAVY>>,
        <<"SQLite write-locks under concurrent load", 12, FALSE, DGRAY>>,
        <<"", 5>>,
        <<"In-memory rate limiter \\u2192 Redis-backed", 13, TRUE, NAVY>>,
        <<"State is lost on pod restart in Kubernetes", 12, FALSE, DGRAY>>,
        <<"", 5>>,
        <<"Single instance \\u2192 Kubernetes + HPA", 13, TRUE, NAVY>>,
        <<"Auto-scale on CPU / request-rate metrics", 12, FALSE, DGRAY>>,
        <<"", 5>>,
        <<"Developer experience gaps to close:", 13, TRUE, NAVY>>,
        <<"OpenAPI/Swagger spec for all 15 routes", 12, FALSE, DGRAY>>,
        <<"Grafana alerts \\u2192 PagerDuty / Slack", 12, FALSE, DGRAY>>,
        <<"", 5>>,
        <<"AI features planned:", 13, TRUE, NAVY>>,
        <<"Natural language metric search", 12, FALSE, DGRAY>>,
        <<"Anomaly detection on time-series data", 12, FALSE, DGRAY>> >> >>

build_slide9 ==
    Flatten(<<
      << [op |-> "add_slide"] >>,
      set_bg(WHITE),
      slide_header("Observability Must Be Designed In \\u2014 Not Bolted On"),
      Flatten([i \in 1..ZipLen(slide9_titles, slide9_columns) |->
                  three_columns(slide9_titles, slide9_columns, i - 1)]) >>)

-----------------------------------------------------------------------------
(* main, lines 750-768, one record per statement *)

main_save_before_last_builder ==
    << [stmt |-> "Presentation"],
       [stmt |-> "setattr", attr |-> "slide_width", v |-> SLIDE_W],
       [stmt |-> "setattr", attr |-> "slide_height", v |-> SLIDE_H],
       [stmt |-> "print", text |-> "Building slides (assertion-evidence format)..."],
       [stmt |-> "call", k |-> 1, body |-> build_slide1],
       [stmt |-> "print", text |-> "  [1/9] Title"],
       [stmt |-> "call", k |-> 2, body |-> build_slide2],
       [stmt |-> "print", text |-> "  [2/9] Campus Analytics Eliminates University Metrics Data Silos"],
       [stmt |-> "call", k |-> 3, body |-> build_slide3],
       [stmt |-> "print", text |-> "  [3/9] Next.js 15 Collapses Frontend and API Into One Deploy Unit"],
       [stmt |-> "call", k |-> 4, body |-> build_slide4],
       [stmt |-> "print", text |-> "  [4/9] Every Technology Choice Minimizes Overhead and Maximizes Testability"],
       [stmt |-> "call", k |-> 5, body |-> build_slide5],
       [stmt |-> "print", text |-> "  [5/9] Multi-Layer Defense and Seven Features Deliver Production-Grade Security"],
       [stmt |-> "call", k |-> 6, body |-> build_slide6],
       [stmt |-> "print", text |-> "  [6/9] Every Commit Is Automatically Built, Tested, and Packaged"],
       [stmt |-> "call", k |-> 7, body |-> build_slide7],
       [stmt |-> "print", text |-> "  [7/9] AI-Generated Code Contained 3 Security Flaws \\u2014 All Caught by Manual Review"],
       [stmt |-> "call", k |-> 8, body |-> build_slide8],
       [stmt |-> "print", text |-> "  [8/9] 320 Tests Across Three Isolation Layers Form a CI Quality Gate"],
       [stmt |-> "save"],
       [stmt |-> "call", k |-> 9, body |-> build_slide9],
       [stmt |-> "print", text |-> "  [9/9] Observability Must Be Designed In \\u2014 Not Bolted On"],
       [stmt |-> "getsize"],
       [stmt |-> "print_saved"] >>

main_slides_3_and_4_swapped ==
    << [stmt |-> "Presentation"],
       [stmt |-> "setattr", attr |-> "slide_width", v |-> SLIDE_W],
       [stmt |-> "setattr", attr |-> "slide_height", v |-> SLIDE_H],
       [stmt |-> "print", text |-> "Building slides (assertion-evidence format)..."],
       [stmt |-> "call", k |-> 1, body |-> build_slide1],
       [stmt |-> "print", text |-> "  [1/9] Title"],
       [stmt |-> "call", k |-> 2, body |-> build_slide2],
       [stmt |-> "print", text |-> "  [2/9] Campus Analytics Eliminates University Metrics Data Silos"],
       [stmt |-> "call", k |-> 4, body |-> build_slide4],
       [stmt |-> "print", text |-> "  [3/9] Next.js 15 Collapses Frontend and API Into One Deploy Unit"],
       [stmt |-> "call", k |-> 3, body |-> build_slide3],
       [stmt |-> "print", text |-> "  [4/9] Every Technology Choice Minimizes Overhead and Maximizes Testability"],
       [stmt |-> "call", k |-> 5, body |-> build_slide5],
       [stmt |-> "print", text |-> "  [5/9] Multi-Layer Defense and Seven Features Deliver Production-Grade Security"],
       [stmt |-> "call", k |-> 6, body |-> build_slide6],
       [stmt |-> "print", text |-> "  [6/9] Every Commit Is Automatically Built, Tested, and Packaged"],
       [stmt |-> "call", k |-> 7, body |-> build_slide7],
       [stmt |-> "print", text |-> "  [7/9] AI-Generated Code Contained 3 Security Flaws \\u2014 All Caught by Manual Review"],
       [stmt |-> "call", k |-> 8, body |-> build_slide8],
       [stmt |-> "print", text |-> "  [8/9] 320 Tests Across Three Isolation Layers Form a CI Quality Gate"],
       [stmt |-> "call", k |-> 9, body |-> build_slide9],
       [stmt |-> "print", text |-> "  [9/9] Observability Must Be Designed In \\u2014 Not Bolted On"],
       [stmt |-> "save"],
       [stmt |-> "getsize"],
       [stmt |-> "print_saved"] >>

main_progress_before_slide_5 ==
    << [stmt |-> "Presentation"],
       [stmt |-> "setattr", attr |-> "slide_width", v |-> SLIDE_W],
       [stmt |-> "setattr", attr |-> "slide_height", v |-> SLIDE_H],
       [stmt |-> "print", text |-> "Building slides (assertion-evidence format)..."],
       [stmt |-> "call", k |-> 1, body |-> build_slide1],
       [stmt |-> "print", text |-> "  [1/9] Title"],
       [stmt |-> "call", k |-> 2, body |-> build_slide2],
       [stmt |-> "print", text |-> "  [2/9] Campus Analytics Eliminates University Metrics Data Silos"],
       [stmt |-> "call", k |-> 3, body |-> build_slide3],
       [stmt |-> "print", text |-> "  [3/9] Next.js 15 Collapses Frontend and API Into One Deploy Unit"],
       [stmt |-> "call", k |-> 4, body |-> build_slide4],
       [stmt |-> "print", text |-> "  [4/9] Every Technology Choice Minimizes Overhead and Maximizes Testability"],
       [stmt |-> "print", text |-> "  [5/9] Multi-Layer Defense and Seven Features Deliver Production-Grade Security"],
       [stmt |-> "call", k |-> 5, body |-> build_slide5],
       [stmt |-> "call", k |-> 6, body |-> build_slide6],
       [stmt |-> "print", text |-> "  [6/9] Every Commit Is Automatically Built, Tested, and Packaged"],
       [stmt |-> "call", k |-> 7, body |-> build_slide7],
       [stmt |-> "print", text |-> "  [7/9] AI-Generated Code Contained 3 Security Flaws \\u2014 All Caught by Manual Review"],
       [stmt |-> "call", k |-> 8, body |-> build_slide8],
       [stmt |-> "print", text |-> "  [8/9] 320 Tests Across Three Isolation Layers Form a CI Quality Gate"],
       [stmt |-> "call", k |-> 9, body |-> build_slide9],
       [stmt |-> "print", text |-> "  [9/9] Observability Must Be Designed In \\u2014 Not Bolted On"],
       [stmt |-> "save"],
       [stmt |-> "getsize"],
       [stmt |-> "print_saved"] >>

main ==
    << [stmt |-> "Presentation"],
       [stmt |-> "setattr", attr |-> "slide_width", v |-> SLIDE_W],
       [stmt |-> "setattr", attr |-> "slide_height", v |-> SLIDE_H],
       [stmt |-> "print", text |-> "Building slides (assertion-evidence format)..."],
       [stmt |-> "call", k |-> 1, body |-> build_slide1],
       [stmt |-> "print", text |-> "  [1/9] Title"],
       [stmt |-> "call", k |-> 2, body |-> build_slide2],
       [stmt |-> "print", text |-> "  [2/9] Campus Analytics Eliminates University Metrics Data Silos"],
       [stmt |-> "call", k |-> 3, body |-> build_slide3],
       [stmt |-> "print", text |-> "  [3/9] Next.js 15 Collapses Frontend and API Into One Deploy Unit"],
       [stmt |-> "call", k |-> 4, body |-> build_slide4],
       [stmt |-> "print", text |-> "  [4/9] Every Technology Choice Minimizes Overhead and Maximizes Testability"],
       [stmt |-> "call", k |-> 5, body |-> build_slide5],
       [stmt |-> "print", text |-> "  [5/9] Multi-Layer Defense and Seven Features Deliver Production-Grade Security"],
       [stmt |-> "call", k |-> 6, body |-> build_slide6],
       [stmt |-> "print", text |-> "  [6/9] Every Commit Is Automatically Built, Tested, and Packaged"],
       [stmt |-> "call", k |-> 7, body |-> build_slide7],
       [stmt |-> "print", text |-> "  [7/9] AI-Generated Code Contained 3 Security Flaws \\u2014 All Caught by Manual Review"],
       [stmt |-> "call", k |-> 8, body |-> build_slide8],
       [stmt |-> "print", text |-> "  [8/9] 320 Tests Across Three Isolation Layers Form a CI Quality Gate"],
       [stmt |-> "call", k |-> 9, body |-> build_slide9],
       [stmt |-> "print", text |-> "  [9/9] Observability Must Be Designed In \\u2014 Not Bolted On"],
       [stmt |-> "save"],
       [stmt |-> "getsize"],
       [stmt |-> "print_saved"] >>

-----------------------------------------------------------------------------
(* The process: where the script lives and how it is started *)

ScriptPath == [abs |-> TRUE, parts |-> <<"repo", "docs", "create_presentation.py">>]

Dir(parts) == [abs |-> TRUE, parts |-> parts]

Rel(parts) == [abs |-> FALSE, parts |-> parts]

\* python3 <path>: from the repository root (the docstring's command line),
\* from docs/, by absolute path from elsewhere
Invocations ==
    { [cwd |-> Dir(<<"repo">>), file |-> Rel(<<"docs", "create_presentation.py">>)],
      [cwd |-> Dir(<<"repo", "docs">>), file |-> Rel(<<"create_presentation.py">>)],
      [cwd |-> Dir(<<"home">>), file |-> ScriptPath],
      [cwd |-> Dir(<<"repo">>), file |-> ScriptPath] }

\* prs before line 751 has run: no presentation, no slides
NoPresentation == [slides |-> <<>>]

NoCall == [fn |-> "none"]

\* the package prs.save writes: one part for the presentation, one per slide
PackageParts(p) ==
    << [part |-> "presentation",
        slide_width |-> p.slide_width, slide_height |-> p.slide_height] >>
    \o [i \in 1..Len(p.slides) |-> [part |-> "slide", slide |-> p.slides[i]]]

RECURSIVE JoinNames(_)
JoinNames(parts) ==
    IF parts = <<>> THEN ""
    ELSE IF Len(parts) = 1 THEN parts[1]
    ELSE parts[1] \o "/" \o JoinNames(Tail(parts))

PathStr(p) == (IF p.abs THEN "/" ELSE "") \o JoinNames(p.parts)

\* line 768; the size is counted in package parts
SavedMsg(path, size) ==
    "\nSaved: " \o PathStr(path) \o "  (" \o ToString(size) \o " KB)"

Fresh ==
    /\ pc = 1
    /\ prog = <<>>
    /\ ip = 0
    /\ prs = NoPresentation
    /\ cur = NoRef
    /\ size_kb = 0
    /\ stdout = <<>>
    /\ created = <<>>
    /\ saveCalls = 0
    /\ faultAt = ""

Init ==
    /\ \E i \in Invocations : cwd = i.cwd /\ file = i.file
    /\ status = "import"
    /\ Fresh
    /\ fs = <<>>
    /\ runs = 1
    /\ call = NoCall

Stmt == main[pc]

AtStmt(kinds) == status = "main" /\ pc <= Len(main) /\ Stmt.stmt \in kinds

\* the exception is caught and dropped: execution goes on
Raise_caught(where) ==
    /\ status' = status
    /\ faultAt' = where

\* an exception nothing catches: the interpreter prints the traceback and exits
Raise(where) ==
    /\ status' = "fault"
    /\ faultAt' = where

\* lines 13-42: the imports and the module-level constants
Import ==
    /\ status = "import"
    /\ status' = "main"
    /\ UNCHANGED <<cwd, file, pc, prog, ip, prs, cur, size_kb, stdout, fs,
                   created, saveCalls, faultAt, runs, call>>

\* import pptx fails: the library is missing
ImportFault ==
    /\ status = "import"
    /\ Raise("import")
    /\ UNCHANGED <<cwd, file, pc, prog, ip, prs, cur, size_kb, stdout, fs,
                   created, saveCalls, runs, call>>

\* line 751
NewPresentation ==
    /\ AtStmt({"Presentation"})
    /\ prs' = Presentation
    /\ pc' = pc + 1
    /\ UNCHANGED <<cwd, file, status, prog, ip, cur, size_kb, stdout, fs,
                   created, saveCalls, faultAt, runs, call>>

\* lines 752-753
SetSlideSize ==
    /\ AtStmt({"setattr"})
    /\ prs' = Set(prs, Stmt.attr, Stmt.v)
    /\ pc' = pc + 1
    /\ UNCHANGED <<cwd, file, status, prog, ip, cur, size_kb, stdout, fs,
                   created, saveCalls, faultAt, runs, call>>

\* lines 755-764: print(<literal>)
PrintLine ==
    /\ AtStmt({"print"})
    /\ stdout' = Append(stdout, Stmt.text)
    /\ pc' = pc + 1
    /\ UNCHANGED <<cwd, file, status, prog, ip, prs, cur, size_kb, fs,
                   created, saveCalls, faultAt, runs, call>>

\* lines 756-764: build_slide<k>(prs) is entered
CallBuilder ==
    /\ AtStmt({"call"})
    /\ status' = "builder"
    /\ prog' = Stmt.body
    /\ ip' = 1
    /\ cur' = NoRef
    /\ UNCHANGED <<cwd, file, pc, prs, size_kb, stdout, fs,
                   created, saveCalls, faultAt, runs, call>>

Running == status \in {"builder", "helper"} /\ ip <= Len(prog)

\* who is running: build_slide<k>, or 0 for a helper called on its own
Builder == IF status = "builder" THEN Stmt.k ELSE 0

\* the next primitive call of the running builder or helper
LibCall ==
    /\ Running
    /\ IF OpOk(prs, cur, prog[ip])
       THEN /\ prs' = Apply(prs, cur, prog[ip]).prs
            /\ cur' = Apply(prs, cur, prog[ip]).cur
            /\ created' = IF prog[ip].op = "add_slide"
                          THEN Append(created, Builder) ELSE created
            /\ ip' = ip + 1
            /\ UNCHANGED <<status, faultAt>>
       ELSE /\ Raise(IF status = "builder" THEN "call" ELSE "helper")
            /\ UNCHANGED <<prs, cur, created, ip>>
    /\ UNCHANGED <<cwd, file, pc, prog, size_kb, stdout, fs, saveCalls, runs, call>>

\* the next primitive call raises (MemoryError, a library error, an interrupt)
LibFault ==
    /\ Running
    /\ Raise(IF status = "builder" THEN "call" ELSE "helper")
    /\ UNCHANGED <<cwd, file, pc, prog, ip, prs, cur, size_kb, stdout, fs,
                   created, saveCalls, runs, call>>

\* return slide
ReturnBuilder ==
    /\ status = "builder"
    /\ ip > Len(prog)
    /\ status' = "main"
    /\ pc' = pc + 1
    /\ prog' = <<>>
    /\ ip' = 0
    /\ cur' = NoRef
    /\ UNCHANGED <<cwd, file, prs, size_kb, stdout, fs,
                   created, saveCalls, faultAt, runs, call>>

\* line 766
Save ==
    /\ AtStmt({"save"})
    /\ fs' = (OUTPUT_PATH :> PackageParts(prs)) @@ fs
    /\ saveCalls' = saveCalls + 1
    /\ pc' = pc + 1
    /\ UNCHANGED <<cwd, file, status, prog, ip, prs, cur, size_kb, stdout,
                   created, faultAt, runs, call>>

\* line 766 raises: the path cannot be opened (nothing is written), or the
\* write fails part-way (a truncated file is left behind)
SaveFault ==
    /\ AtStmt({"save"})
    /\ \/ fs' = fs
       \/ fs' = (OUTPUT_PATH :> <<>>) @@ fs
    /\ saveCalls' = saveCalls + 1
    /\ Raise("save")
    /\ UNCHANGED <<cwd, file, pc, prog, ip, prs, cur, size_kb, stdout,
                   created, runs, call>>

\* line 767
GetSize ==
    /\ AtStmt({"getsize"})
    /\ IF OUTPUT_PATH \in DOMAIN fs
       THEN /\ size_kb' = Len(fs[OUTPUT_PATH])
            /\ pc' = pc + 1
            /\ UNCHANGED <<status, faultAt>>
       ELSE /\ Raise("getsize")
            /\ UNCHANGED <<size_kb, pc>>
    /\ UNCHANGED <<cwd, file, prog, ip, prs, cur, stdout, fs,
                   created, saveCalls, runs, call>>

\* line 768
PrintSaved ==
    /\ AtStmt({"print_saved"})
    /\ stdout' = Append(stdout, SavedMsg(OUTPUT_PATH, size_kb))
    /\ pc' = pc + 1
    /\ UNCHANGED <<cwd, file, status, prog, ip, prs, cur, size_kb, fs,
                   created, saveCalls, faultAt, runs, call>>

\* main returns, the interpreter exits
Exit ==
    /\ status = "main"
    /\ pc > Len(main)
    /\ status' = "done"
    /\ UNCHANGED <<cwd, file, pc, prog, ip, prs, cur, size_kb, stdout, fs,
                   created, saveCalls, faultAt, runs, call>>

Next ==
    \/ Import \/ ImportFault
    \/ NewPresentation \/ SetSlideSize \/ PrintLine
    \/ CallBuilder \/ LibCall \/ LibFault \/ ReturnBuilder
    \/ Save \/ SaveFault \/ GetSize \/ PrintSaved \/ Exit

Spec == Init /\ [][Next]_vars

-----------------------------------------------------------------------------
(* The script is started again: a new process, the same file system *)

MaxRuns == 2

Rerun ==
    /\ status \in {"done", "fault"}
    /\ runs < MaxRuns
    /\ runs' = runs + 1
    /\ \E i \in Invocations : cwd' = i.cwd /\ file' = i.file
    /\ status' = "import"
    /\ pc' = 1
    /\ prog' = <<>>
    /\ ip' = 0
    /\ prs' = NoPresentation
    /\ cur' = NoRef
    /\ size_kb' = 0
    /\ stdout' = <<>>
    /\ created' = <<>>
    /\ saveCalls' = 0
    /\ faultAt' = ""
    /\ UNCHANGED <<fs, call>>

NextRerun == Next \/ Rerun

SpecRerun == Init /\ [][NextRerun]_vars

-----------------------------------------------------------------------------
(* One helper called on its own, on a slide of a presentation, with        *)
(* arguments drawn from bounded sets                                       *)

MaxLines == 2
MaxRows == 3
MaxCols == 2
MaxFills == 3

\* the position and size handed to the helper under test
Box == [l |-> Inches(30), t |-> Inches(120), w |-> Inches(400), h |-> Inches(100)]

Texts == {"a", "b"}

\* tuples (text, size, bold, color, indent_level) cut off after 0..5 fields;
\* every field present differs from the default it would otherwise get
Tuples ==
    {<<>>}
    \cup { SubSeq(<<txt, 11, TRUE, NAVY, 1>>, 1, n) : txt \in Texts, n \in 1..5 }

SeqsUpTo(S, n) == UNION { [1..m -> S] : m \in 0..n }

HeaderNames == [i \in 1..(MaxCols + 1) |-> "H" \o ToString(i)]

\* a row of n cells
RowOf(n) == [ci \in 1..n |-> "x" \o ToString(ci)]

\* the slides slide_header is called on: a new one, one whose background is
\* set (as the builders do first), one that already holds a shape
HeaderSlides ==
    { NewSlide,
      [background |-> [type |-> "solid", rgb |-> WHITE], shapes |-> <<>>],
      [background |-> [type |-> "solid", rgb |-> WHITE],
       shapes |-> << [kind |-> "textbox", l |-> Box.l, t |-> Box.t,
                      w |-> Box.w, h |-> Box.h, fill |-> [type |-> "inherit"],
                      paragraphs |-> <<NewParagraph>>] >>] }

\* a border element of a cell's properties, with a fill of its own
CellBorder ==
    [tag |-> "a:lnL", children |-> << [tag |-> "a:solidFill", children |-> <<>>] >>]

\* the cells _cell_bg is called on: without a properties element, with an
\* empty one, with borders, with another kind of fill, with one or two
\* solidFill children already there
CellsBefore ==
    { [paragraphs |-> <<NewParagraph>>] }
    \cup
    { [tcPr |-> ch, paragraphs |-> <<NewParagraph>>] :
        ch \in { <<>>,
                 << CellBorder >>,
                 << CellBorder, [tag |-> "a:noFill", children |-> <<>>] >>,
                 << solidFill(STEEL) >>,
                 << CellBorder, solidFill(STEEL), solidFill(NAVY) >> } }

\* a slide holding a one-cell table
TableSlide(cell) ==
    [background |-> [type |-> "inherit"],
     shapes |-> << [kind |-> "table", nr |-> 1, nc |-> 1,
                    l |-> Box.l, t |-> Box.t, w |-> Box.w, h |-> Box.h,
                    columns |-> << [width |-> Box.w] >>,
                    cells |-> [rc \in {<<0, 0>>} |-> cell]] >>]

\* the two add_table calls of the script, lines 375-377 and 546-548
ScriptTables ==
    { [fn |-> "add_table", headers |-> slide4_headers, rows |-> slide4_rows,
       box |-> [l |-> Inches(25), t |-> Inches(120), w |-> Inches(1283), h |-> Inches(605)],
       kw |-> [col_widths |-> <<Inches(135), Inches(230), Inches(918)>>]],
      [fn |-> "add_table", headers |-> slide7_headers, rows |-> slide7_rows,
       box |-> [l |-> Inches(30), t |-> Inches(152), w |-> Inches(1273), h |-> Inches(330)],
       kw |-> [col_widths |-> <<Inches(320), Inches(473), Inches(480)>>]] }

HelperCalls ==
    ScriptTables
    \cup
    { [fn |-> "set_bg", rgb |-> rgb] : rgb \in {NAVY, WHITE, LGRAY} }
    \cup
    { [fn |-> "_cell_bg", colours |-> cs, cell |-> cell] :
        cs \in SeqsUpTo({NAVY, LGRAY, WHITE}, MaxFills) \ {<<>>},
        cell \in CellsBefore }
    \cup
    { [fn |-> "slide_header", text |-> txt, slide |-> sl] :
        txt \in Texts, sl \in HeaderSlides }
    \cup
    { [fn |-> "rect", fill |-> fill, kw |-> [line |-> line]] :
        fill \in {NAVY, STEEL}, line \in {None, STEEL, WHITE} }
    \cup
    { [fn |-> "textbox", text |-> txt, kw |-> kw] :
        txt \in Texts,
        kw \in { [size |-> 22],
                 [size |-> 22, bold |-> TRUE, color |-> NAVY,
                  align |-> PP_ALIGN.CENTER, italic |-> TRUE, wrap |-> FALSE,
                  font |-> "Courier New"] } }
    \cup
    { [fn |-> "multiline_box", lines_data |-> ld, kw |-> kw] :
        ld \in SeqsUpTo(Tuples, MaxLines),
        kw \in { [default_size |-> 13, bg |-> None, mono |-> FALSE],
                 [default_size |-> 9, bg |-> MONO_BG, mono |-> TRUE] } }
    \cup
    { [fn |-> "add_table", headers |-> SubSeq(HeaderNames, 1, nc),
       rows |-> [ri \in DOMAIN lens |-> RowOf(lens[ri])],
       kw |-> [col_widths |-> cw]] :
        nc \in 1..MaxCols,
        lens \in SeqsUpTo(1..(MaxCols + 1), MaxRows),
        cw \in { None, <<Inches(100)>>,
                 [i \in 1..(MaxCols + 1) |-> Inches(100 + i)] } }

\* the primitive calls of helper call c
HelperOps(c) ==
    CASE c.fn = "set_bg" -> set_bg(c.rgb)
      [] c.fn = "rect" -> rect(Box.l, Box.t, Box.w, Box.h, c.fill, c.kw)
      [] c.fn = "textbox" -> textbox(c.text, Box.l, Box.t, Box.w, Box.h, c.kw)
      [] c.fn = "multiline_box" ->
            multiline_box(c.lines_data, Box.l, Box.t, Box.w, Box.h, c.kw)
      [] c.fn = "add_table" ->
            LET b == IF "box" \in DOMAIN c THEN c.box ELSE Box IN
            add_table(c.headers, c.rows, b.l, b.t, b.w, b.h, c.kw)
      [] c.fn = "slide_header" -> slide_header(c.text)
      [] c.fn = "_cell_bg" ->
            Flatten([i \in 1..Len(c.colours) |-> _cell_bg(c.colours[i])])

\* the slide the helper is handed
HelperSlide(c) ==
    IF "slide" \in DOMAIN c THEN c.slide
    ELSE IF "cell" \in DOMAIN c THEN TableSlide(c.cell)
    ELSE NewSlide

\* the cell the helper is handed, if any
HelperRef(c) ==
    IF "cell" \in DOMAIN c THEN [cell |-> <<0, 0>>, p |-> 0, r |-> 0] ELSE NoRef

HelperInit ==
    /\ call \in HelperCalls
    /\ cwd = Dir(<<"repo">>)
    /\ file = ScriptPath
    /\ status = "helper_call"
    /\ pc = 1
    /\ prog = <<>>
    /\ ip = 0
    /\ prs = [slide_width |-> SLIDE_W, slide_height |-> SLIDE_H,
              slides |-> <<HelperSlide(call)>>]
    /\ cur = HelperRef(call)
    /\ size_kb = 0
    /\ stdout = <<>>
    /\ fs = <<>>
    /\ created = <<0>>
    /\ saveCalls = 0
    /\ faultAt = ""
    /\ runs = 1

\* the helper is entered with its arguments bound
HelperCall ==
    /\ status = "helper_call"
    /\ status' = "helper"
    /\ prog' = HelperOps(call)
    /\ ip' = 1
    /\ UNCHANGED <<cwd, file, pc, prs, cur, size_kb, stdout, fs,
                   created, saveCalls, faultAt, runs, call>>

\* the helper returns
HelperReturn ==
    /\ status = "helper"
    /\ ip > Len(prog)
    /\ status' = "helper_done"
    /\ UNCHANGED <<cwd, file, pc, prog, ip, prs, cur, size_kb, stdout, fs,
                   created, saveCalls, faultAt, runs, call>>

NextHelpers == HelperCall \/ LibCall \/ LibFault \/ HelperReturn

SpecHelpers == HelperInit /\ [][NextHelpers]_vars

-----------------------------------------------------------------------------
(* What the properties below read off a state *)

NumBuilders == 9

\* the statement of main that calls build_slide<k>
CallIndex(k) == CHOOSE i \in 1..Len(main) : main[i].stmt = "call" /\ main[i].k = k

\* build_slide<k> has returned (in this run)
Returned(k) == pc > CallIndex(k)

\* paragraph.text: the runs' text, concatenated
RECURSIVE RunsText(_)
RunsText(rs) == IF rs = <<>> THEN "" ELSE Head(rs).text \o RunsText(Tail(rs))

\* text_frame.text: the paragraphs' text, one line each
RECURSIVE FrameText(_)
FrameText(ps) ==
    IF ps = <<>> THEN ""
    ELSE IF Len(ps) = 1 THEN RunsText(ps[1].runs)
    ELSE RunsText(ps[1].runs) \o "\n" \o FrameText(Tail(ps))

TextBoxes(slide) == SelectSeq(slide.shapes, LAMBDA sh : sh.kind = "textbox")

\* the title of each slide: slide 1 by the module docstring, slides 2-9 by
\* the "# Assertion:" comments above the builders
SlideTitle ==
    << "Campus Analytics Platform",
       "Campus Analytics Eliminates University Metrics Data Silos",
       "Next.js 15 Collapses Frontend and API Into One Deploy Unit",
       "Every Technology Choice Minimizes Overhead and Maximizes Testability",
       "Multi-Layer Defense and Seven Features Deliver Production-Grade Security",
       "Every Commit Is Automatically Built, Tested, and Packaged \\u2014 No Manual Steps",
       "AI-Generated Code Contained 3 Security Flaws \\u2014 All Caught by Manual Review",
       "320 Tests Across Three Isolation Layers Form a CI Quality Gate",
       "Observability Must Be Designed In \\u2014 Not Bolted On" >>

\* the strings main prints from literals (lines 755-764)
LiteralPrints == { main[i].text : i \in { j \in 1..Len(main) : main[j].stmt = "print" } }

\* where the script's directory puts the output file
FixedPath == join(dirname(ScriptPath), "campus-analytics-presentation.pptx")

-----------------------------------------------------------------------------
(* C1 *)

\* C1: when main has run to completion the presentation holds exactly nine
\* slides, and slide k is the one build_slide<k> created, for k = 1..9.
C1_NineSlidesInBuildOrder ==
    status = "done" =>
        /\ Len(prs.slides) = NumBuilders
        /\ created = [k \in 1..NumBuilders |-> k]

C1_Witness == status = "done" /\ Len(prs.slides) = NumBuilders /\ saveCalls = 1

-----------------------------------------------------------------------------
(* C2 *)

\* C2: once build_slide<k> has returned, slide k holds a text box whose text
\* is exactly the title of slide k.
C2_TitleOnEverySlide ==
    \A k \in 1..NumBuilders :
        Returned(k) =>
            /\ k <= Len(prs.slides)
            /\ \E i \in DOMAIN prs.slides[k].shapes :
                  /\ prs.slides[k].shapes[i].kind = "textbox"
                  /\ FrameText(prs.slides[k].shapes[i].paragraphs) = SlideTitle[k]

C2_Witness == status = "main" /\ \A k \in 1..NumBuilders : Returned(k)

-----------------------------------------------------------------------------
(* C3 *)

\* C3: after main finishes without a fault, the output file exists at the
\* script's own directory joined with "campus-analytics-presentation.pptx",
\* whatever the working directory and however the script was named on the
\* command line, and it is not empty.
C3_OutputFileAtFixedPath ==
    status = "done" =>
        /\ OUTPUT_PATH = FixedPath
        /\ FixedPath \in DOMAIN fs
        /\ Len(fs[FixedPath]) > 0

C3_Witness ==
    /\ status = "done"
    /\ cwd # dirname(ScriptPath)
    /\ ~file.abs
    /\ FixedPath \in DOMAIN fs

-----------------------------------------------------------------------------
(* C4 *)

\* C4: execution is strictly sequential: a slide that is no longer the last
\* one never changes (all shapes of slide k are added before slide k+1 is
\* created); the document is written at most once, exactly once when main
\* completes, and only after all nine builders have returned; after the
\* write no builder runs and the presentation no longer changes.
C4_StrictlySequential ==
    /\ [](/\ saveCalls <= 1
          /\ (status = "done" => saveCalls = 1)
          /\ (saveCalls >= 1 =>
                /\ \A k \in 1..NumBuilders : Returned(k)
                /\ Len(prs.slides) = NumBuilders
                /\ status # "builder"))
    /\ [][/\ \A j \in 1..(Len(prs.slides) - 1) :
                /\ j <= Len(prs'.slides)
                /\ prs'.slides[j] = prs.slides[j]
          /\ (saveCalls >= 1 => prs' = prs /\ created' = created)]_vars

C4_Witness ==
    /\ status = "done"
    /\ saveCalls = 1
    /\ \A k \in 1..NumBuilders : Len(prs.slides[k].shapes) > 0

-----------------------------------------------------------------------------
(* C5 *)

\* C5: a failure is an unhandled fault that ends the script: an exception
\* always leaves the script faulted, and nothing happens after a fault (no
\* retry, no recovery).  When build_slide<k> faults, no later builder has run
\* or will run and the file is never written; when the save faults it was
\* called once and the "Saved" message is never printed.
C5_FaultTerminates ==
    /\ [](/\ (faultAt # "" => status = "fault")
          /\ (status = "fault" /\ faultAt = "call" =>
                /\ saveCalls = 0
                /\ DOMAIN fs = {}
                /\ Len(created) <= main[pc].k
                /\ \A k \in 1..NumBuilders : k >= main[pc].k => ~Returned(k))
          /\ (status = "fault" /\ faultAt = "save" =>
                /\ saveCalls = 1
                /\ \A i \in DOMAIN stdout : stdout[i] \in LiteralPrints))
    /\ [][status # "fault"]_vars

C5_Witness ==
    /\ status = "fault"
    /\ faultAt = "call"
    /\ main[pc].k = 4
    /\ Len(prs.slides) = 4
    /\ Len(prs.slides[4].shapes) > 2

-----------------------------------------------------------------------------
(* C6, under SpecRerun *)

\* the slide titles of a saved package: per slide, the text of its first
\* text box
TitlesOf(parts) ==
    [i \in 1..(Len(parts) - 1) |->
        FrameText(TextBoxes(parts[i + 1].slide)[1].paragraphs)]

\* C6: running the script again produces a document with the same number of
\* slides and the same title strings in the same order: whenever a run saves
\* over the complete file of an earlier run, the new file agrees with the old
\* one on the slide count and on the sequence of titles.
C6_RerunSameTitles ==
    [][(/\ saveCalls' = saveCalls + 1
        /\ status' = "main"
        /\ FixedPath \in DOMAIN fs
        /\ Len(fs[FixedPath]) > 0)
       => /\ FixedPath \in DOMAIN fs'
          /\ Len(fs'[FixedPath]) = Len(fs[FixedPath])
          /\ TitlesOf(fs'[FixedPath]) = TitlesOf(fs[FixedPath])
          /\ TitlesOf(fs'[FixedPath]) = SlideTitle]_vars

C6_Witness ==
    /\ runs = 2
    /\ status = "done"
    /\ cwd = Dir(<<"home">>)
    /\ FixedPath \in DOMAIN fs
    /\ Len(fs[FixedPath]) = NumBuilders + 1

-----------------------------------------------------------------------------
(* C7 *)

\* C7: the slide list is ordered and append-only: a step either leaves the
\* number of slides alone or appends one new, empty slide at the end; it
\* never changes a slide other than the last one, nor a slide created by
\* another builder than the running one; and when build_slide<k> returns it
\* has appended exactly one slide (the presentation holds k slides).
C7_SlidesAppendOnly ==
    /\ [](status = "main" /\ prs # NoPresentation =>
            Len(prs.slides) = Cardinality({k \in 1..NumBuilders : Returned(k)}))
    /\ [][LET n == Len(prs.slides) IN
          /\ \/ Len(prs'.slides) = n
             \/ /\ Len(prs'.slides) = n + 1
                /\ prs'.slides[n + 1] = NewSlide
                /\ \A j \in 1..n : prs'.slides[j] = prs.slides[j]
          /\ \A j \in 1..n :
                prs'.slides[j] # prs.slides[j] => (j = n /\ created[j] = Builder)]_vars

C7_Witness ==
    /\ status = "builder"
    /\ Stmt.k = 8
    /\ Len(prs.slides) = 8
    /\ Len(prs.slides[8].shapes) > 5

-----------------------------------------------------------------------------
(* C8, under SpecHelpers *)

\* the formatting helpers
FormattingHelpers == {"set_bg", "rect", "textbox", "multiline_box", "add_table"}

\* the steps a sequence of primitive calls performs, without the values
Steps(ops) == [i \in 1..Len(ops) |-> ops[i].op]

\* the conditions the helpers branch and loop on
Branches(c) ==
    CASE c.fn = "rect" -> <<Truthy(c.kw.line)>>
      [] c.fn = "multiline_box" ->
            <<Truthy(c.kw.bg)>> \o [i \in DOMAIN c.lines_data |-> Len(c.lines_data[i]) = 0]
      [] c.fn = "add_table" ->
            << IF Len(c.kw.col_widths) < Len(c.headers)
               THEN Len(c.kw.col_widths) ELSE Len(c.headers),
               Len(c.headers) >>
            \o [ri \in DOMAIN c.rows |-> Len(c.rows[ri])]
      [] OTHER -> <<>>

-----------------------------------------------------------------------------
(* C9, under SpecHelpers *)

\* the colour of the solidFill that is the first child of the cell's tcPr,
\* "" when there is none
CellFill(cell) ==
    IF Len(cell.tcPr) > 0 /\ cell.tcPr[1].tag = "a:solidFill"
    THEN cell.tcPr[1].children[1].val
    ELSE ""

\* the hex colour add_table is to give table row r (row 0 is the header)
RowColour(r) ==
    IF r = 0 THEN "1E3A5F"            \* NAVY
    ELSE IF (r - 1) % 2 = 0 THEN "F0F4F8"   \* LGRAY
    ELSE "FFFFFF"                     \* WHITE

add_table_backgrounds ==
    (status = "helper_done" /\ call.fn = "add_table") =>
        \A rc \in DOMAIN Shape(prs).cells :
            CellFill(Shape(prs).cells[rc]) =
                IF rc[1] = 0 \/ rc[2] < Len(call.rows[rc[1]])
                THEN RowColour(rc[1])
                ELSE ""

C9_Witness ==
    /\ status = "helper_done"
    /\ call.fn = "add_table"
    /\ Len(call.headers) = 2
    /\ Len(call.rows) = 3
    /\ \A ri \in 1..3 : Len(call.rows[ri]) = 2
    /\ CellFill(Shape(prs).cells[<<2, 1>>]) = "FFFFFF"
    /\ CellFill(Shape(prs).cells[<<3, 1>>]) = "F0F4F8"

-----------------------------------------------------------------------------
(* C10, under SpecHelpers *)

\* C10 as stated: for every list lines_data the returned text box holds
\* exactly len(lines_data) paragraphs and paragraph i carries the text of
\* tuple i.  (Fails for the empty list: the box keeps the one paragraph
\* add_textbox creates.)
C10_Original ==
    (status = "helper_done" /\ call.fn = "multiline_box") =>
        /\ Len(Shape(prs).paragraphs) = Len(call.lines_data)
        /\ \A i \in DOMAIN call.lines_data :
              RunsText(Shape(prs).paragraphs[i].runs) = call.lines_data[i][1]

\* C10, amended: for every non-empty list lines_data the returned text box
\* holds exactly len(lines_data) paragraphs, and paragraph i carries the text
\* of tuple i, in list order; for the empty list it holds the single empty
\* paragraph of a new text box.
C10_OneParagraphPerTuple ==
    (status = "helper_done" /\ call.fn = "multiline_box") =>
        IF call.lines_data = <<>>
        THEN Shape(prs).paragraphs = <<NewParagraph>>
        ELSE /\ Len(Shape(prs).paragraphs) = Len(call.lines_data)
             /\ \A i \in DOMAIN call.lines_data :
                   /\ Len(Shape(prs).paragraphs[i].runs) = 1
                   /\ RunsText(Shape(prs).paragraphs[i].runs) = call.lines_data[i][1]

C10_Witness ==
    /\ status = "helper_done"
    /\ call.fn = "multiline_box"
    /\ Len(call.lines_data) = 2
    /\ call.lines_data[1][1] = "b"
    /\ call.lines_data[2][1] = "a"
    /\ RunsText(Shape(prs).paragraphs[2].runs) = "a"

-----------------------------------------------------------------------------
(* C11, under SpecHelpers *)

\* shape sh is a filled rectangle of colour rgb at top t, of height h
IsBar(sh, rgb, t, h) ==
    /\ sh.kind = "autoshape"
    /\ sh.fill = [type |-> "solid", rgb |-> rgb]
    /\ sh.t = t
    /\ sh.h = h

\* C11: slide_header adds exactly five shapes to the slide, in this order:
\* the top navy bar, the steel stripe, the light-gray band, the title text
\* box holding assertion_text (22 pt, bold, navy, no wrap) and the bottom
\* navy bar; the shapes the slide had, its background and the rest of the
\* presentation are as before.
C11_HeaderAddsFiveShapes ==
    (status = "helper_done" /\ call.fn = "slide_header") =>
        LET before == call.slide.shapes
            after  == Slide(prs).shapes
            n      == Len(before)
        IN
        /\ Len(prs.slides) = 1
        /\ prs.slide_width = SLIDE_W /\ prs.slide_height = SLIDE_H
        /\ Slide(prs).background = call.slide.background
        /\ Len(after) = n + 5
        /\ SubSeq(after, 1, n) = before
        /\ IsBar(after[n + 1], NAVY, 0, Inches(8))
        /\ after[n + 1].l = 0 /\ after[n + 1].w = SLIDE_W
        /\ IsBar(after[n + 2], STEEL, Inches(8), Inches(100))
        /\ IsBar(after[n + 3], LGRAY, Inches(8), Inches(100))
        /\ after[n + 2].l + after[n + 2].w = after[n + 3].l
        /\ after[n + 4].kind = "textbox"
        /\ after[n + 4].word_wrap = FALSE
        /\ Len(after[n + 4].paragraphs) = 1
        /\ Len(after[n + 4].paragraphs[1].runs) = 1
        /\ LET r == after[n + 4].paragraphs[1].runs[1] IN
              /\ r.text = call.text
              /\ r.size = Pt(22)
              /\ r.bold = TRUE
              /\ r.color = NAVY
        /\ IsBar(after[n + 5], NAVY, Inches(742), Inches(8))
        /\ after[n + 5].t + after[n + 5].h = SLIDE_H

C11_Witness ==
    /\ status = "helper_done"
    /\ call.fn = "slide_header"
    /\ Len(call.slide.shapes) = 1
    /\ Len(Slide(prs).shapes) = 6
    /\ Shape(prs).kind = "autoshape"

-----------------------------------------------------------------------------
(* C12, under SpecHelpers *)

\* '{:02X}{:02X}{:02X}' of the colours _cell_bg is called with here
ColourHex(rgb) ==
    CASE rgb = NAVY  -> "1E3A5F"
      [] rgb = LGRAY -> "F0F4F8"
      [] rgb = WHITE -> "FFFFFF"

\* the children of a properties element that are (are not) solidFill
SolidFills(children) == SelectSeq(children, LAMBDA e : e.tag = "a:solidFill")

OtherChildren(children) == SelectSeq(children, LAMBDA e : e.tag # "a:solidFill")

\* C12: after any sequence of one or more _cell_bg calls on the same cell,
\* the cell's properties element holds exactly one solidFill child, it is
\* the first child, and its colour is the colour of the last call; the
\* other children are the ones the cell had, in their order.
C12_CellBgIdempotent ==
    (status = "helper_done" /\ call.fn = "_cell_bg") =>
        LET children == Shape(prs).cells[<<0, 0>>].tcPr
            before   == IF "tcPr" \in DOMAIN call.cell THEN call.cell.tcPr ELSE <<>>
        IN
        /\ Len(SolidFills(children)) = 1
        /\ children[1].tag = "a:solidFill"
        /\ children[1].children =
              << [tag |-> "a:srgbClr",
                  val |-> ColourHex(call.colours[Len(call.colours)])] >>
        /\ Tail(children) = OtherChildren(before)

C12_Witness ==
    /\ status = "helper_done"
    /\ call.fn = "_cell_bg"
    /\ call.colours = <<NAVY, WHITE, WHITE>>
    /\ "tcPr" \in DOMAIN call.cell
    /\ Len(SolidFills(call.cell.tcPr)) = 2
    /\ Len(Shape(prs).cells[<<0, 0>>].tcPr) = 2

-----------------------------------------------------------------------------
(* C13, under SpecHelpers *)

\* the text of a table cell
CellText(cell) == FrameText(cell.paragraphs)

\* C13: add_table builds a table with len(rows)+1 rows and len(headers)
\* columns; header ci goes to cell (0, ci) and entry rows[ri][ci] to cell
\* (ri+1, ci); the cell it addresses is inside the table exactly when the
\* entry's column is below len(headers), so the helper returns only if each
\* row has at most len(headers) entries; both tables of the script (slides
\* 4 and 7) have three columns and rows of three entries.
C13_TableCellsInRange ==
    /\ \A c \in ScriptTables :
          /\ Len(c.headers) = 3
          /\ \A ri \in DOMAIN c.rows : Len(c.rows[ri]) = 3
    /\ (call.fn = "add_table" /\ status # "helper_call" /\ ip > 1) =>
          LET T  == Shape(prs)
              nr == Len(call.rows) + 1
              nc == Len(call.headers)
          IN
          /\ T.kind = "table"
          /\ T.nr = nr /\ T.nc = nc
          /\ DOMAIN T.cells = (0..(nr - 1)) \X (0..(nc - 1))
          /\ Len(T.columns) = nc
          /\ (status = "helper" /\ ip <= Len(prog) /\ prog[ip].op = "cell") =>
                /\ prog[ip].r \in 0..(nr - 1)
                /\ (<<prog[ip].r, prog[ip].c>> \in DOMAIN T.cells) <=> (prog[ip].c < nc)
          /\ status = "helper_done" =>
                /\ \A ri \in DOMAIN call.rows : Len(call.rows[ri]) <= nc
                /\ \A ci \in 1..nc : CellText(T.cells[<<0, ci - 1>>]) = call.headers[ci]
                /\ \A ri \in DOMAIN call.rows : \A ci \in DOMAIN call.rows[ri] :
                      CellText(T.cells[<<ri, ci - 1>>]) = call.rows[ri][ci]

C13_Witness ==
    /\ status = "helper_done"
    /\ call.fn = "add_table"
    /\ call.rows = slide4_rows
    /\ Shape(prs).nc = 3
    /\ CellText(Shape(prs).cells[<<Len(slide4_rows), 2>>]) = slide4_rows[Len(slide4_rows)][3]

-----------------------------------------------------------------------------
(* C14 *)

\* the positions in shapes, in order
Positions(shapes) == [i \in 1..Len(shapes) |-> i]

\* the column bodies of a three-column slide: the text boxes at 1.52in
ColumnBodies(shapes) ==
    SelectSeq(Positions(shapes),
              LAMBDA i : shapes[i].kind = "textbox" /\ shapes[i].t = Inches(152))

\* the column labels: the text boxes at 1.15in
ColumnLabels(shapes) ==
    SelectSeq(Positions(shapes),
              LAMBDA i : shapes[i].kind = "textbox" /\ shapes[i].t = Inches(115))

\* the dividers: the rectangles at 1.1in
ColumnDividers(shapes) ==
    SelectSeq(Positions(shapes),
              LAMBDA i : shapes[i].kind = "autoshape" /\ shapes[i].t = Inches(110))

\* C14: on slides 8 and 9, column i (i = 0, 1, 2) starts at
\* 0.2in + i*(4.15in + 0.13in) and is 4.15in wide; in integer EMU the three
\* columns are pairwise disjoint, there are two dividers, added right after
\* columns 0 and 1, each strictly inside the gap between its neighbouring
\* columns, and the right edge of column 2 does not exceed the slide width
\* of 13.33in.
C14_ThreeColumnLayout ==
    \A k \in {8, 9} :
        Returned(k) =>
            LET shapes == prs.slides[k].shapes
                body   == ColumnBodies(shapes)
                label  == ColumnLabels(shapes)
                div    == ColumnDividers(shapes)
                left(i)  == shapes[body[i + 1]].l
                right(i) == shapes[body[i + 1]].l + shapes[body[i + 1]].w
            IN
            /\ Len(body) = 3 /\ Len(label) = 3 /\ Len(div) = 2
            /\ \A i \in 0..2 :
                  /\ left(i) = 182880 + i * (3794760 + 118872)
                  /\ left(i) = Inches(20) + i * (Inches(415) + Inches(13))
                  /\ shapes[body[i + 1]].w = Inches(415)
                  /\ shapes[label[i + 1]].l = left(i)
                  /\ shapes[label[i + 1]].w = Inches(415)
                  /\ label[i + 1] + 1 = body[i + 1]
            /\ \A i \in 0..1 :
                  /\ right(i) < left(i + 1)
                  /\ div[i + 1] = body[i + 1] + 1
                  /\ right(i) < shapes[div[i + 1]].l
                  /\ shapes[div[i + 1]].l + shapes[div[i + 1]].w < left(i + 1)
            /\ body[3] = Len(shapes)
            /\ prs.slide_width = 12188952
            /\ right(2) <= prs.slide_width

C14_Witness ==
    /\ Returned(9)
    /\ Len(prs.slides) = 9
    /\ Len(ColumnDividers(prs.slides[8].shapes)) = 2
    /\ Len(ColumnDividers(prs.slides[9].shapes)) = 2
    /\ prs.slides[9].shapes[Len(prs.slides[9].shapes)].l = 8010144

-----------------------------------------------------------------------------
(* C15 *)

\* the progress messages, lines 756-764
ProgressMessage ==
    << "  [1/9] Title",
       "  [2/9] Campus Analytics Eliminates University Metrics Data Silos",
       "  [3/9] Next.js 15 Collapses Frontend and API Into One Deploy Unit",
       "  [4/9] Every Technology Choice Minimizes Overhead and Maximizes Testability",
       "  [5/9] Multi-Layer Defense and Seven Features Deliver Production-Grade Security",
       "  [6/9] Every Commit Is Automatically Built, Tested, and Packaged",
       "  [7/9] AI-Generated Code Contained 3 Security Flaws \\u2014 All Caught by Manual Review",
       "  [8/9] 320 Tests Across Three Isolation Layers Form a CI Quality Gate",
       "  [9/9] Observability Must Be Designed In \\u2014 Not Bolted On" >>

\* "[k/9]" is on standard output
Printed(k) == \E i \in DOMAIN stdout : stdout[i] = ProgressMessage[k]

\* build_slide<k> has been entered
Started(k) ==
    \/ pc > CallIndex(k)
    \/ pc = CallIndex(k) /\ (status = "builder" \/ (status = "fault" /\ faultAt = "call"))

\* the lines of standard output that are progress messages
ProgressLines ==
    SelectSeq(stdout, LAMBDA line : \E k \in 1..NumBuilders : line = ProgressMessage[k])

\* the "Saved" message is on standard output
SavedPrinted ==
    \E i \in DOMAIN stdout : \E n \in 0..(NumBuilders + 1) :
        stdout[i] = "\nSaved: " \o PathStr(FixedPath) \o "  (" \o ToString(n) \o " KB)"

\* C15: for every k in 1..9 the message "[k/9]" is printed after
\* build_slide<k> has returned and before build_slide<k+1> starts, so at any
\* moment the number of "[k/9]" messages printed is at most the number of
\* slides in the presentation; the "Saved" message is printed only after
\* the file has been written.
C15_ProgressTracksConstruction ==
    /\ \A k \in 1..NumBuilders : Printed(k) => Returned(k)
    /\ \A k \in 1..(NumBuilders - 1) : Started(k + 1) => Printed(k)
    /\ Len(ProgressLines) <= Len(prs.slides)
    /\ \A i \in DOMAIN ProgressLines : ProgressLines[i] = ProgressMessage[i]
    /\ SavedPrinted =>
          /\ saveCalls = 1
          /\ FixedPath \in DOMAIN fs
          /\ fs[FixedPath] = PackageParts(prs)
          /\ Len(ProgressLines) = NumBuilders

C15_Witness ==
    /\ status = "done"
    /\ SavedPrinted
    /\ Printed(9)
    /\ Len(ProgressLines) = 9

-----------------------------------------------------------------------------
(* C16, under SpecHelpers *)

\* C16: for a tuple of length n (1 <= n <= 5) multiline_box gives the
\* paragraph size default_size if n < 2, bold False if n < 3, colour DGRAY
\* if n < 4 and indent level 0 if n < 5, and the tuple's own value for every
\* field that is present.
C16_TupleDefaults ==
    (status = "helper_done" /\ call.fn = "multiline_box") =>
        \A i \in DOMAIN call.lines_data :
            LET item == call.lines_data[i]
                n    == Len(item)
                para == Shape(prs).paragraphs[i]
                run  == para.runs[1]
            IN
            /\ n \in 1..5
            /\ run.text = item[1]
            /\ run.size = (IF n < 2 THEN call.kw.default_size ELSE item[2]) * 12700
            /\ run.bold = (IF n < 3 THEN FALSE ELSE item[3])
            /\ run.color = (IF n < 4 THEN DGRAY ELSE item[4])
            /\ para.level = (IF n < 5 THEN 0 ELSE item[5])

C16_Witness ==
    /\ status = "helper_done"
    /\ call.fn = "multiline_box"
    /\ call.kw.default_size = 9
    /\ Len(call.lines_data) = 2
    /\ Len(call.lines_data[1]) = 2
    /\ Len(call.lines_data[2]) = 1
    /\ Shape(prs).paragraphs[1].runs[1].size = 11 * 12700
    /\ Shape(prs).paragraphs[2].runs[1].size = 9 * 12700
    /\ Shape(prs).paragraphs[2].runs[1].color = DGRAY

====
